---------------------------- MODULE Spec2Model ----------------------------
(***************************************************************************)
(* Authorization and account-lifecycle core of the Student Assessment      *)
(* Tracker: the login route with its lockout tracker, the admin            *)
(* toggle-user-status route with its last-admin guard, and the             *)
(* authorization gate (requireAuth, requireRole, checkCourseOwnership,     *)
(* checkEnrollment).                                                       *)
(*                                                                         *)
(* A request is a slot of req.  An action is one continuation of a         *)
(* handler: the completion of one awaited database call together with the  *)
(* synchronous code that follows it up to the next await.  The clock now   *)
(* counts minutes; a handler takes far less than a minute, so Tick fires   *)
(* only while no handler is in flight.                                     *)
(***************************************************************************)
EXTENDS Integers, Sequences, FiniteSets, Bags

VARIABLES
    users,        \* the users table: id -> row
    courses,      \* the courses table: id -> row
    enrollments,  \* the enrollments table: a set of rows
    env,          \* process.env: MAX_LOGIN_ATTEMPTS, LOCKOUT_TIME
    now,          \* the wall clock, in minutes
    session,      \* the session store: session id -> req.session.user
    req,          \* the requests: slot -> request record
    audit,        \* the audit_logs table: a bag of rows
    auditStore    \* the audit store: "up", "down" (inserts fail), "hung" (they never return)

vars == <<users, courses, enrollments, env, now, session, req, audit, auditStore>>

(***************************************************************************)
(* Bounds of the model.                                                    *)
(***************************************************************************)
MaxTime == 3
MaxAudit == 4
MaxToggles == 2

(***************************************************************************)
(* Values.                                                                 *)
(***************************************************************************)
\* null / undefined for a nullable column, and a present value of it
NULL == <<>>
At(t) == <<t>>
TimeOf(x) == x[1]

\* req.session.user when nobody is logged in
NoUser == [id |-> "undefined"]

UserIds == {"a1", "a2", "l1", "l2", "s1", "s2"}
SessIds == {"k1", "k2"}
ReqIds == {"r1", "r2"}

\* An e-mail address as typed: its name, whether it is typed with capital
\* letters, and whether it has the shape of an address.
EmailOf(name) == [name |-> name, caps |-> FALSE, wellformed |-> TRUE]
EmptyEmail == [name |-> "", caps |-> FALSE, wellformed |-> FALSE]

\* A text typed into a form, as much of it as the program looks at: the
\* white space at its ends and the length of what is between
NoText == [lead |-> 0, len |-> 0, trail |-> 0]
Text(len) == [NoText EXCEPT !.len = len]
Padded(lead, len, trail) == [lead |-> lead, len |-> len, trail |-> trail]
Length(text) == text.lead + text.len + text.trail

\* express-validator's trim(): a text of white space only becomes empty
Trim(text) == [text EXCEPT !.lead = 0, !.trail = 0]

\* express-validator's isEmail() and normalizeEmail() (lower-cases)
IsEmail(e) == e.wellformed
NormalizeEmail(e) == [e EXCEPT !.caps = FALSE]

GoodPassword == "Passw0rd!"
OtherPassword == "N3wPassw0rd!"
Passwords == {GoodPassword, "guess", ""}

\* bcrypt: the hash keeps the plaintext it was made from out of reach; all
\* the program can do with it is compare.
Hash(p) == [bcrypt |-> p]

ComparePassword(password, hashedPassword) == hashedPassword = Hash(password)

(***************************************************************************)
(* Configuration: parseInt(process.env.X) || default.  An unset variable   *)
(* parses to NaN and 0 is falsy, so both give the default; a negative      *)
(* number is kept.                                                         *)
(***************************************************************************)
DefaultMaxAttempts == 5
DefaultLockoutTime == 15

Unset == <<>>
ParseIntOr(v, d) == IF v = Unset \/ v[1] = 0 THEN d ELSE v[1]

MaxAttemptsOf(e) == ParseIntOr(e.MAX_LOGIN_ATTEMPTS, DefaultMaxAttempts)
LockoutTimeOf(e) == ParseIntOr(e.LOCKOUT_TIME, DefaultLockoutTime)

EnvMaxLoginAttempts == {Unset, <<0>>, <<-1>>, <<2>>}
EnvLockoutTime == {Unset, <<-1>>, <<1>>, <<2>>}

(***************************************************************************)
(* The users table and its helpers (dbHelpers).                            *)
(***************************************************************************)
RoleOf(id) ==
    CASE id \in {"a1", "a2"} -> "admin"
      [] id \in {"l1", "l2"} -> "lecturer"
      [] OTHER -> "student"

NewUser(id, status, active) ==
    [id |-> id, email |-> EmailOf(id), password_hash |-> Hash(GoodPassword),
     role |-> RoleOf(id), approval_status |-> status, is_active |-> active,
     login_attempts |-> 0, locked_until |-> NULL, last_login |-> NULL,
     first_name |-> Text(4), approved_by |-> NULL, approved_at |-> NULL,
     rejection_reason |-> NULL]

\* .eq('email', email).single(): an exact, case-sensitive match; no row
\* gives null (PGRST116 is let through)
GetUserByEmail(email) ==
    IF \E u \in DOMAIN users : users[u].email = email
    THEN users[CHOOSE u \in DOMAIN users : users[u].email = email]
    ELSE NoUser

\* .eq('id', userId).single(); the callers below pass ids of existing rows
GetUserById(userId) == users[userId]

\* Variant: an update that puts the columns it is not given back to their
\* defaults
UpdateUserReplacing(userId, updates) ==
    [users EXCEPT ![userId] =
        [f \in DOMAIN users[userId] |->
            IF f \in DOMAIN updates THEN updates[f]
            ELSE IF f = "role" THEN "student" ELSE users[userId][f]]]

\* .update(updates).eq('id', userId): a partial update
UpdateUser(userId, updates) ==
    [users EXCEPT ![userId] =
        [f \in DOMAIN users[userId] |->
            IF f \in DOMAIN updates THEN updates[f] ELSE users[userId][f]]]

\* A row with some of its columns replaced
Patch(row, updates) ==
    [f \in DOMAIN row |-> IF f \in DOMAIN updates THEN updates[f] ELSE row[f]]

\* approveUser's and rejectUser's updates
ApproveUserUpdates(approvedBy, t) ==
    [approval_status |-> "approved", approved_by |-> At(approvedBy), approved_at |-> At(t)]

RejectUserUpdates(rejectionReason, rejectedBy, t) ==
    [approval_status |-> "rejected", approved_by |-> At(rejectedBy), approved_at |-> At(t),
     rejection_reason |-> At(rejectionReason)]

\* sanitizeUserForSession: the row without three of its columns
\* Variant: only the hash taken out
SanitizeHashOnly(user) == [f \in DOMAIN user \ {"password_hash"} |-> user[f]]

SanitizeUserForSession(user) ==
    [f \in DOMAIN user \ {"password_hash", "login_attempts", "locked_until"} |-> user[f]]

\* user.locked_until && new Date() < new Date(user.locked_until)
IsLocked(user, t) == user.locked_until # NULL /\ t < TimeOf(user.locked_until)

(***************************************************************************)
(* Audit rows (middleware/audit).                                          *)
(***************************************************************************)
\* A snapshot that is null: a record without fields
NoValues == [f \in {} |-> NULL]

\* logAuthEvent(email, action, success, req, reason)
AuthEvent(email, success, reason) ==
    [user_id |-> NULL,
     action |-> IF success THEN "AUTH_LOGIN_SUCCESS" ELSE "AUTH_LOGIN_FAILED",
     table_name |-> At("users"), record_id |-> NULL,
     old_values |-> [email |-> email, reason |-> reason], new_values |-> NoValues]

\* logAuditEvent(userId, action, tableName, recordId, oldValues, newValues, req)
AuditEvent(userId, action, recordId, oldValues, newValues) ==
    [user_id |-> At(userId), action |-> action, table_name |-> At("users"),
     record_id |-> At(recordId), old_values |-> oldValues, new_values |-> newValues]

Log(event) == audit (+) SetToBag({event})

\* Variant: a recorder that goes on only when the store has taken the row
InsertOrWait(event) ==
    /\ auditStore = "up"
    /\ audit' = Log(event)

\* await supabase.from('audit_logs').insert(logData) inside the recorder's
\* try block: the row is added, or the insert fails and the recorder only
\* logs that to the console; the caller goes on once the insert has returned.
Insert(event) ==
    /\ auditStore # "hung"
    /\ audit' = IF auditStore = "up" THEN Log(event) ELSE audit

(***************************************************************************)
(* Requests.                                                               *)
(***************************************************************************)
\* A response: res.redirect after req.flash('error', msg), or
\* res.status(status).json({ error: msg })
NoResp == [status |-> 0, json |-> FALSE, location |-> "", msg |-> "", minutes |-> 0]
Redirect(location, msg) == [NoResp EXCEPT !.status = 302, !.location = location, !.msg = msg]
Json(status, msg) == [NoResp EXCEPT !.status = status, !.json = TRUE, !.msg = msg]

IdleReq ==
    [kind |-> "none", pc |-> "idle", sess |-> "k1", xhr |-> FALSE,
     email |-> EmptyEmail, password |-> "", user |-> NoUser, updates |-> NULL,
     compared |-> FALSE, target |-> "a1", route |-> "none", courseId |-> "none",
     pos |-> 0, evaluated |-> <<>>, resp |-> NoResp,
     role |-> "none", confirm |-> TRUE, fieldsOk |-> TRUE, reason |-> NoText,
     newPassword |-> "", firstName |-> NoText, activity |-> "none", url |-> ""]

Free(r) == req[r].pc \in {"idle", "done"}
Quiet == \A r \in ReqIds : Free(r)

\* An answered request: its locals are gone, its response is set.
Answered(q, resp) ==
    [q EXCEPT !.pc = "done", !.user = NoUser, !.updates = NULL, !.pos = 0, !.resp = resp,
              !.activity = "due"]

Done(r, resp) == [req EXCEPT ![r] = Answered(req[r], resp)]

(***************************************************************************)
(* POST /auth/login: requireGuest, checkAccountLockout, the validators,    *)
(* the handler; handleFailedLogin and handleSuccessfulLogin.               *)
(***************************************************************************)
LoginNames == {"s1", "ghost"}
LoginEmails ==
    {[name |-> n, caps |-> c, wellformed |-> TRUE] : n \in LoginNames, c \in BOOLEAN}
        \cup {EmptyEmail, [name |-> "s1", caps |-> FALSE, wellformed |-> FALSE]}

\* The answer to a correct password for a deactivated account
AccountDeactivated ==
    Redirect("/auth/login",
             "Your account has been deactivated. Please contact the administrator.")

ValidationFailed(r) == ~IsEmail(req[r].email) \/ req[r].password = ""

\* The request arrives: requireGuest; checkAccountLockout up to its lookup
\* (with no e-mail it calls next() at once and the validators refuse).
LoginStart(r, s, e, p) ==
    /\ Free(r)
    /\ BagCardinality(audit) < MaxAudit
    /\ LET q == [IdleReq EXCEPT !.kind = "login", !.sess = s, !.email = e, !.password = p]
       IN  req' = [req EXCEPT ![r] =
                IF session[s] # NoUser
                THEN Answered(q, Redirect("/", ""))
                ELSE IF e = EmptyEmail
                THEN Answered(q, Redirect("/auth/login", "Please enter a valid email"))
                ELSE [q EXCEPT !.pc = "lockout"]]
    /\ UNCHANGED <<users, courses, enrollments, env, now, session, audit, auditStore>>

\* `Account is locked. Please try again in ${lockoutTime} minutes.`
LockedResp(user, t) ==
    [Redirect("/auth/login", "Account is locked")
        EXCEPT !.minutes = TimeOf(user.locked_until) - t]

\* checkAccountLockout after its lookup by the e-mail as typed, then the
\* validators and the handler up to its own lookup.
CheckAccountLockout(r) ==
    /\ req[r].kind = "login" /\ req[r].pc = "lockout"
    /\ LET user == GetUserByEmail(req[r].email)
       IN  req' =
             IF user # NoUser /\ IsLocked(user, now)
             THEN Done(r, LockedResp(user, now))
             ELSE IF ValidationFailed(r)
             THEN Done(r, Redirect("/auth/login",
                        IF ~IsEmail(req[r].email) THEN "Please enter a valid email"
                        ELSE "Password is required"))
             ELSE [req EXCEPT ![r].pc = "lookup", ![r].email = NormalizeEmail(req[r].email)]
    /\ UNCHANGED <<users, courses, enrollments, env, now, session, audit, auditStore>>

\* Variant: The handler without its lock check
LoginLookupNoLockCheck(r) ==
    /\ req[r].kind = "login" /\ req[r].pc = "lookup"
    /\ LET user == GetUserByEmail(req[r].email)
       IN  IF user = NoUser
           THEN /\ Insert(AuthEvent(req[r].email, FALSE, "User not found"))
                /\ req' = Done(r, Redirect("/auth/login", "Invalid email or password"))
           ELSE /\ audit' = audit
                /\ req' = [req EXCEPT ![r].pc = "compare", ![r].user = user]
    /\ UNCHANGED <<users, courses, enrollments, env, now, session, auditStore>>

\* Variant: The handler telling the visitor that the e-mail is unknown
LoginLookupTelling(r) ==
    /\ req[r].kind = "login" /\ req[r].pc = "lookup"
    /\ LET user == GetUserByEmail(req[r].email)
       IN  IF user = NoUser
           THEN /\ Insert(AuthEvent(req[r].email, FALSE, "User not found"))
                /\ req' = Done(r, Redirect("/auth/login", "No account with this email"))
           ELSE IF IsLocked(user, now)
           THEN /\ Insert(AuthEvent(req[r].email, FALSE, "Account locked"))
                /\ req' = Done(r, LockedResp(user, now))
           ELSE /\ audit' = audit
                /\ req' = [req EXCEPT ![r].pc = "compare", ![r].user = user]
    /\ UNCHANGED <<users, courses, enrollments, env, now, session, auditStore>>

\* The handler after getUserByEmail: unknown e-mail, locked account, or on to
\* the password.
LoginLookup(r) ==
    /\ req[r].kind = "login" /\ req[r].pc = "lookup"
    /\ LET user == GetUserByEmail(req[r].email)
       IN  IF user = NoUser
           THEN /\ Insert(AuthEvent(req[r].email, FALSE, "User not found"))
                /\ req' = Done(r, Redirect("/auth/login", "Invalid email or password"))
           ELSE IF IsLocked(user, now)
           THEN /\ Insert(AuthEvent(req[r].email, FALSE, "Account locked"))
                /\ req' = Done(r, LockedResp(user, now))
           ELSE /\ audit' = audit
                /\ req' = [req EXCEPT ![r].pc = "compare", ![r].user = user]
    /\ UNCHANGED <<users, courses, enrollments, env, now, session, auditStore>>

\* Variant: The handler testing is_active before the password
LoginCompareActiveFirst(r) ==
    /\ req[r].kind = "login" /\ req[r].pc = "compare"
    /\ LET ok == ComparePassword(req[r].password, req[r].user.password_hash)
       IN  IF ~req[r].user.is_active
           THEN /\ Insert(AuthEvent(req[r].email, FALSE, "Account deactivated"))
                /\ req' = [req EXCEPT ![r] =
                              Answered([req[r] EXCEPT !.compared = TRUE],
                                       AccountDeactivated)]
           ELSE /\ audit' = audit
                /\ req' = [req EXCEPT ![r].compared = TRUE,
                                      ![r].pc = IF ok THEN "success" ELSE "failed"]
    /\ UNCHANGED <<users, courses, enrollments, env, now, session, auditStore>>

\* The handler after comparePassword: wrong password, deactivated account,
\* or on to the success path.
LoginCompare(r) ==
    /\ req[r].kind = "login" /\ req[r].pc = "compare"
    /\ LET ok == ComparePassword(req[r].password, req[r].user.password_hash)
       IN  IF ~ok
           THEN /\ audit' = audit
                /\ req' = [req EXCEPT ![r].compared = TRUE, ![r].pc = "failed"]
           ELSE IF ~req[r].user.is_active
           THEN /\ Insert(AuthEvent(req[r].email, FALSE, "Account deactivated"))
                /\ req' = [req EXCEPT ![r] =
                              Answered([req[r] EXCEPT !.compared = TRUE],
                                       AccountDeactivated)]
           ELSE /\ audit' = audit
                /\ req' = [req EXCEPT ![r].compared = TRUE, ![r].pc = "success"]
    /\ UNCHANGED <<users, courses, enrollments, env, now, session, auditStore>>

\* Variant: The updates with loginAttempts > maxAttempts as the lock test
FailedLoginUpdatesOffByOne(user, e, t) ==
    LET loginAttempts == user.login_attempts + 1
    IN  IF loginAttempts > MaxAttemptsOf(e)
        THEN [login_attempts |-> loginAttempts,
              locked_until |-> At(t + LockoutTimeOf(e))]
        ELSE [login_attempts |-> loginAttempts]

\* Variant: The updates counting afresh once a lock has run out
FailedLoginUpdatesAfresh(user, e, t) ==
    LET expired == user.locked_until # NULL /\ ~IsLocked(user, t)
        loginAttempts == (IF expired THEN 0 ELSE user.login_attempts) + 1
    IN  IF loginAttempts >= MaxAttemptsOf(e)
        THEN [login_attempts |-> loginAttempts,
              locked_until |-> At(t + LockoutTimeOf(e))]
        ELSE IF expired
        THEN [login_attempts |-> loginAttempts, locked_until |-> NULL]
        ELSE [login_attempts |-> loginAttempts]

\* handleFailedLogin's updates, from the row it has just read
FailedLoginUpdates(user, e, t) ==
    LET loginAttempts == user.login_attempts + 1
    IN  IF loginAttempts >= MaxAttemptsOf(e)
        THEN [login_attempts |-> loginAttempts,
              locked_until |-> At(t + LockoutTimeOf(e))]
        ELSE [login_attempts |-> loginAttempts]

\* handleFailedLogin after getUserById: the updates are computed here, with
\* the time of this moment, and sent.
HandleFailedLoginRead(r) ==
    /\ req[r].kind = "login" /\ req[r].pc = "failed"
    /\ req' = [req EXCEPT ![r].pc = "failedWrite",
                          ![r].updates = FailedLoginUpdates(GetUserById(req[r].user.id), env, now)]
    /\ UNCHANGED <<users, courses, enrollments, env, now, session, audit, auditStore>>

\* Variant: The counter raised from the row as it is when the write lands
HandleFailedLoginWriteAtomic(r) ==
    /\ req[r].kind = "login" /\ req[r].pc = "failedWrite"
    /\ users' = UpdateUser(req[r].user.id,
                           FailedLoginUpdates(GetUserById(req[r].user.id), env, now))
    /\ Insert(AuthEvent(req[r].email, FALSE, "Invalid password"))
    /\ req' = Done(r, Redirect("/auth/login", "Invalid email or password"))
    /\ UNCHANGED <<courses, enrollments, env, now, session, auditStore>>

\* handleFailedLogin's updateUser lands; the handler logs and answers.
HandleFailedLoginWrite(r) ==
    /\ req[r].kind = "login" /\ req[r].pc = "failedWrite"
    /\ users' = UpdateUser(req[r].user.id, req[r].updates)
    /\ Insert(AuthEvent(req[r].email, FALSE, "Invalid password"))
    /\ req' = Done(r, Redirect("/auth/login", "Invalid email or password"))
    /\ UNCHANGED <<courses, enrollments, env, now, session, auditStore>>

\* Where the login handler sends a logged-in user
LoginRedirect(user) ==
    IF user.role = "admin" THEN Redirect("/admin/dashboard", "")
    ELSE IF user.approval_status = "approved"
    THEN Redirect("/" \o user.role \o "/dashboard", "")
    ELSE IF user.approval_status = "pending"
    THEN Redirect("/auth/pending-approval", "")
    ELSE Redirect("/auth/login", "Your account has been rejected")

\* Variant: The updates without locked_until
SuccessfulLoginUpdatesKeepLock(t) ==
    [login_attempts |-> 0, last_login |-> At(t)]

\* handleSuccessfulLogin's updates
SuccessfulLoginUpdates(t) ==
    [login_attempts |-> 0, locked_until |-> NULL, last_login |-> At(t)]

\* handleSuccessfulLogin, the audit row, the session principal, the redirect.
HandleSuccessfulLogin(r) ==
    /\ req[r].kind = "login" /\ req[r].pc = "success"
    /\ users' = UpdateUser(req[r].user.id, SuccessfulLoginUpdates(now))
    /\ Insert(AuthEvent(req[r].email, TRUE, NULL))
    /\ session' = [session EXCEPT ![req[r].sess] = SanitizeUserForSession(req[r].user)]
    /\ req' = Done(r, LoginRedirect(req[r].user))
    /\ UNCHANGED <<courses, enrollments, env, now, auditStore>>

\* A minute passes.
Tick ==
    /\ Quiet
    /\ now < MaxTime
    /\ now' = now + 1
    /\ UNCHANGED <<users, courses, enrollments, env, session, req, audit, auditStore>>

\* The browser drops its cookie (or the cookie's maxAge runs out): the next
\* request of that browser carries a fresh, anonymous session.
DropSession(s) ==
    /\ Quiet
    /\ session[s] # NoUser
    /\ session' = [session EXCEPT ![s] = NoUser]
    /\ UNCHANGED <<users, courses, enrollments, env, now, req, audit, auditStore>>

LoginStep(r) ==
    \/ \E e \in LoginEmails, p \in Passwords : LoginStart(r, "k1", e, p)
    \/ CheckAccountLockout(r)
    \/ LoginLookup(r)
    \/ LoginCompare(r)
    \/ HandleFailedLoginRead(r)
    \/ HandleFailedLoginWrite(r)
    \/ HandleSuccessfulLogin(r)

(***************************************************************************)
(* The authorization gate (middleware/auth).  A middleware takes the       *)
(* request and req.session.user and gives the request back: answered, or   *)
(* waiting for a lookup, or unchanged but for evaluated, the predicates    *)
(* it has evaluated, when it calls next().                                 *)
(***************************************************************************)
Saw(q, predicate) == [q EXCEPT !.evaluated = Append(@, predicate)]

Unauthenticated(q) ==
    IF q.xhr THEN Json(401, "Authentication required")
    ELSE Redirect("/auth/login", "Please log in to access this page")

PendingApproval(q) ==
    IF q.xhr THEN Json(403, "Account pending approval")
    ELSE Redirect("/auth/pending-approval",
                  "Your account is pending approval. Please wait for admin approval.")

Forbidden(q, msg) ==
    IF q.xhr THEN Json(403, "Access denied") ELSE Redirect("/", msg)

\* The handler behind the gate has been reached and answers
Handled == [NoResp EXCEPT !.status = 200]

\* next(error): the application's error handler renders the error page
ErrorPage == [NoResp EXCEPT !.status = 500, !.msg = "Something went wrong!"]

\* Variant: requireAuth without its approval check
RequireAuthNoApproval(q, user) ==
    IF user = NoUser
    THEN Answered(Saw(q, "authentication"), Unauthenticated(q))
    ELSE Saw(Saw(q, "authentication"), "approval")

\* Variant: requireAuth answering pending-approval to a request without principal
RequireAuthApprovalFirst(q, user) ==
    IF user = NoUser \/ (user.role # "admin" /\ user.approval_status # "approved")
    THEN Answered(Saw(q, "approval"), PendingApproval(q))
    ELSE Saw(Saw(q, "approval"), "authentication")

\* requireAuth: no principal, then approval unless the principal is an admin
RequireAuth(q, user) ==
    IF user = NoUser
    THEN Answered(Saw(q, "authentication"), Unauthenticated(q))
    ELSE IF user.role # "admin" /\ user.approval_status # "approved"
    THEN Answered(Saw(Saw(q, "authentication"), "approval"), PendingApproval(q))
    ELSE Saw(Saw(q, "authentication"), "approval")

\* requireRole(roles) repeats requireAuth's two checks before its own
RequireRole(roles, q, user) ==
    LET q2 == RequireAuth(q, user)
    IN  IF q2.pc = "done" THEN q2
        ELSE IF user.role \notin roles
        THEN Answered(Saw(q2, "role"),
                      Forbidden(q, "You do not have permission to access this page"))
        ELSE Saw(q2, "role")

\* checkCourseOwnership up to its lookup.  It reads req.session.user.id
\* inside its try block: with no principal that throws, and the catch calls
\* next(error).
CheckCourseOwnership(q, user) ==
    IF user = NoUser THEN Answered(q, ErrorPage)
    ELSE IF user.role = "admin" THEN Saw(q, "courseOwnership")
    ELSE IF user.role = "lecturer"
    THEN [Saw(q, "courseOwnership") EXCEPT !.pc = "courseLookup", !.user = user]
    ELSE Answered(Saw(q, "courseOwnership"),
                  Forbidden(q, "You can only access your own courses"))

\* checkEnrollment up to its lookup
CheckEnrollment(q, user) ==
    IF user = NoUser THEN Answered(q, ErrorPage)
    ELSE IF user.role \in {"admin", "lecturer"} THEN Saw(q, "enrollment")
    ELSE IF user.role = "student"
    THEN [Saw(q, "enrollment") EXCEPT !.pc = "enrollmentLookup", !.user = user]
    ELSE Answered(Saw(q, "enrollment"),
                  Forbidden(q, "You must be enrolled in this course to access it"))

RequireAuthMw == [mw |-> "requireAuth", roles |-> {}]
RequireRoleMw(roles) == [mw |-> "requireRole", roles |-> roles]
CheckCourseOwnershipMw == [mw |-> "checkCourseOwnership", roles |-> {}]
CheckEnrollmentMw == [mw |-> "checkEnrollment", roles |-> {}]

\* The middleware chains: the router mounts of the application and of the
\* API, and the ownership and enrollment middleware behind the same two.
Chain(route) ==
    CASE route = "admin" -> <<RequireAuthMw, RequireRoleMw({"admin"})>>
      [] route = "student" -> <<RequireAuthMw, RequireRoleMw({"student"})>>
      [] route = "lecturer" -> <<RequireAuthMw, RequireRoleMw({"lecturer"})>>
      [] route = "stats" -> <<RequireAuthMw, RequireRoleMw({"admin", "lecturer"})>>
      [] route = "performance" -> <<RequireAuthMw>>
      [] route = "lecturerCourse" ->
            <<RequireAuthMw, RequireRoleMw({"lecturer"}), CheckCourseOwnershipMw>>
      [] route = "staffCourse" ->
            <<RequireAuthMw, RequireRoleMw({"admin", "lecturer"}), CheckCourseOwnershipMw>>
      [] route = "enrolledCourse" -> <<RequireAuthMw, CheckEnrollmentMw>>
      [] route = "account" -> <<RequireAuthMw>>

Routes ==
    {"admin", "student", "lecturer", "stats", "performance",
     "lecturerCourse", "staffCourse", "enrolledCourse"}

\* Express runs the chain from middleware q.pos on until one answers or
\* waits; past the last one the request is at its handler.
RECURSIVE RunChain(_, _)
RunChain(q, user) ==
    IF q.pc # "gate" THEN q
    ELSE IF q.pos > Len(Chain(q.route)) THEN [q EXCEPT !.pc = "handler"]
    ELSE LET m == Chain(q.route)[q.pos]
             n == [q EXCEPT !.pos = @ + 1]
         IN  CASE m.mw = "requireAuth" -> RunChain(RequireAuth(n, user), user)
               [] m.mw = "requireRole" -> RunChain(RequireRole(m.roles, n, user), user)
               [] m.mw = "checkCourseOwnership" -> RunChain(CheckCourseOwnership(n, user), user)
               [] m.mw = "checkEnrollment" -> RunChain(CheckEnrollment(n, user), user)

\* A request at its handler, for the routes whose handler is not modelled
AtHandler(q) == IF q.pc = "handler" THEN Answered(q, Handled) ELSE q

CourseIds == {"c1", "c2", "c9"}

\* A request to a gated route arrives and runs its chain.
GateStart(r, s, route, c, xhr) ==
    /\ Free(r)
    /\ LET q == [IdleReq EXCEPT !.kind = "gate", !.pc = "gate", !.sess = s, !.xhr = xhr,
                                !.route = route, !.courseId = c, !.pos = 1]
       IN  req' = [req EXCEPT ![r] = AtHandler(RunChain(q, session[s]))]
    /\ UNCHANGED <<users, courses, enrollments, env, now, session, audit, auditStore>>

\* Variant: The test letting any lecturer own a course without lecturer
OwnsCourseOrUnassigned(course, userId) ==
    course.lecturer_id = NULL \/ course.lecturer_id = At(userId)

\* course && course.lecturer_id === userId
OwnsCourse(course, userId) == course.lecturer_id = At(userId)

\* checkCourseOwnership after getCourseById, which throws when .single()
\* finds no row; the catch calls next(error).
CourseLookup(r) ==
    /\ req[r].pc = "courseLookup"
    /\ LET q == req[r]
       IN  req' = [req EXCEPT ![r] =
                IF q.courseId \notin DOMAIN courses
                THEN Answered(q, ErrorPage)
                ELSE IF OwnsCourse(courses[q.courseId], q.user.id)
                THEN AtHandler(RunChain([q EXCEPT !.pc = "gate"], session[q.sess]))
                ELSE Answered(q, Forbidden(q, "You can only access your own courses"))]
    /\ UNCHANGED <<users, courses, enrollments, env, now, session, audit, auditStore>>

\* getStudentEnrollments: the student's active enrollments (a list, empty
\* when there is none)
GetStudentEnrollments(studentId) ==
    {e \in enrollments : e.student_id = studentId /\ e.status = "active"}

\* enrollments.some(e => e.course_id === courseId && e.status === 'active')
IsEnrolled(rows, c) == \E e \in rows : e.course_id = c /\ e.status = "active"

\* checkEnrollment after getStudentEnrollments
EnrollmentLookup(r) ==
    /\ req[r].pc = "enrollmentLookup"
    /\ LET q == req[r]
       IN  req' = [req EXCEPT ![r] =
                IF IsEnrolled(GetStudentEnrollments(q.user.id), q.courseId)
                THEN AtHandler(RunChain([q EXCEPT !.pc = "gate"], session[q.sess]))
                ELSE Answered(q, Forbidden(q, "You must be enrolled in this course to access it"))]
    /\ UNCHANGED <<users, courses, enrollments, env, now, session, audit, auditStore>>

GateStep(r) ==
    \/ \E s \in SessIds, route \in Routes, c \in CourseIds, xhr \in BOOLEAN :
          GateStart(r, s, route, c, xhr)
    \/ CourseLookup(r)
    \/ EnrollmentLookup(r)

(***************************************************************************)
(* POST /admin/toggle-user-status/:userId, behind the admin router's       *)
(* requireAuth and requireRole(['admin']).                                 *)
(***************************************************************************)
ToggleTargets == {"a1", "a2", "l1", "u9"}

LastAdminProtected ==
    Redirect("/admin/users", "Cannot deactivate the last active administrator")

\* The catch block of the handler
ToggleError(q) ==
    IF q.xhr THEN Json(500, "Error updating user status")
    ELSE Redirect("/admin/users", "Error updating user status")

ToggleSuccess(q, newStatus) ==
    IF q.xhr
    THEN Json(200, IF newStatus THEN "User activated successfully"
                   ELSE "User deactivated successfully")
    ELSE Redirect("/admin/users", IF newStatus THEN "User has been activated successfully"
                                  ELSE "User has been deactivated successfully")

\* .eq('role', role).eq('approval_status', 'approved')
GetApprovedUsersByRole(role) ==
    {users[u] : u \in {v \in DOMAIN users :
                          users[v].role = role /\ users[v].approval_status = "approved"}}

\* activeAdmins.filter(admin => admin.is_active).length
ActiveAdminCount(admins) == Cardinality({a \in admins : a.is_active})

\* The request arrives and runs the admin router's chain.
ToggleStart(r, s, target, xhr) ==
    /\ Free(r)
    /\ BagCardinality(audit) < MaxToggles
    /\ LET q == [IdleReq EXCEPT !.kind = "toggle", !.pc = "gate", !.sess = s, !.xhr = xhr,
                                !.route = "admin", !.target = target, !.pos = 1]
           n == RunChain(q, session[s])
       IN  req' = [req EXCEPT ![r] =
                      IF n.pc = "handler" THEN [n EXCEPT !.pc = "toggleRead"] ELSE n]
    /\ UNCHANGED <<users, courses, enrollments, env, now, session, audit, auditStore>>

\* getUserById(userId) returns: it throws when there is no such row.  For
\* an active admin the handler goes on to count, otherwise to write.
ToggleRead(r) ==
    /\ req[r].pc = "toggleRead"
    /\ LET q == req[r]
       IN  req' = [req EXCEPT ![r] =
                IF q.target \notin DOMAIN users THEN Answered(q, ToggleError(q))
                ELSE LET currentUser == GetUserById(q.target)
                     IN  IF currentUser.role = "admin" /\ currentUser.is_active
                         THEN [q EXCEPT !.pc = "toggleCount", !.user = currentUser]
                         ELSE [q EXCEPT !.pc = "toggleWrite", !.user = currentUser]]
    /\ UNCHANGED <<users, courses, enrollments, env, now, session, audit, auditStore>>

\* Variant: The count refusing only when activeAdminCount < 1
ToggleCountAllowOne(r) ==
    /\ req[r].pc = "toggleCount"
    /\ req' = [req EXCEPT ![r] =
                  IF ActiveAdminCount(GetApprovedUsersByRole("admin")) < 1
                  THEN Answered(req[r], LastAdminProtected)
                  ELSE [req[r] EXCEPT !.pc = "toggleWrite"]]
    /\ UNCHANGED <<users, courses, enrollments, env, now, session, audit, auditStore>>

\* getApprovedUsersByRole("admin") returns: activeAdminCount <= 1 refuses.
ToggleCount(r) ==
    /\ req[r].pc = "toggleCount"
    /\ req' = [req EXCEPT ![r] =
                  IF ActiveAdminCount(GetApprovedUsersByRole("admin")) <= 1
                  THEN Answered(req[r], LastAdminProtected)
                  ELSE [req[r] EXCEPT !.pc = "toggleWrite"]]
    /\ UNCHANGED <<users, courses, enrollments, env, now, session, audit, auditStore>>

\* updateUser(userId, { is_active: !currentUser.is_active }), with the
\* currentUser read before
ToggleWrite(r) ==
    /\ req[r].pc = "toggleWrite"
    /\ users' = UpdateUser(req[r].target, [is_active |-> ~req[r].user.is_active])
    /\ req' = [req EXCEPT ![r].pc = "toggleAudit"]
    /\ UNCHANGED <<courses, enrollments, env, now, session, audit, auditStore>>

\* logAuditEvent(req.session.user.id, ...) and the response.  Reading the
\* id of a principal that is gone throws, into the catch block.
ToggleAudit(r) ==
    /\ req[r].pc = "toggleAudit"
    /\ LET q == req[r]
           newStatus == ~q.user.is_active
       IN  IF session[q.sess] = NoUser
           THEN /\ req' = Done(r, ToggleError(q))
                /\ audit' = audit
           ELSE /\ Insert(AuditEvent(session[q.sess].id,
                                           IF newStatus THEN "USER_ACTIVATED"
                                           ELSE "USER_DEACTIVATED",
                                           q.target,
                                           [is_active |-> q.user.is_active],
                                           [is_active |-> newStatus]))
                /\ req' = Done(r, ToggleSuccess(q, newStatus))
    /\ UNCHANGED <<users, courses, enrollments, env, now, session, auditStore>>

ToggleStep(r, s) ==
    \/ \E target \in ToggleTargets, xhr \in BOOLEAN : ToggleStart(r, s, target, xhr)
    \/ ToggleRead(r)
    \/ ToggleCount(r)
    \/ ToggleWrite(r)
    \/ ToggleAudit(r)

(***************************************************************************)
(* POST /auth/register.                                                    *)
(***************************************************************************)
MaxRegistrations == 2

\* Ids the database gives to new rows (gen_random_uuid(); which one is told
\* apart by nothing in the program)
NewIds == {"n1", "n2", "n3"}

\* What validatePassword's regular expressions see of a password
PasswordTraits(p) ==
    IF p = GoodPassword
    THEN [length |-> 9, upper |-> TRUE, lower |-> TRUE, digit |-> TRUE, special |-> TRUE]
    ELSE IF p = OtherPassword
    THEN [length |-> 12, upper |-> TRUE, lower |-> TRUE, digit |-> TRUE, special |-> TRUE]
    ELSE IF p = "guess"
    THEN [length |-> 5, upper |-> FALSE, lower |-> TRUE, digit |-> FALSE, special |-> FALSE]
    ELSE [length |-> 0, upper |-> FALSE, lower |-> FALSE, digit |-> FALSE, special |-> FALSE]

\* validatePassword: its list of errors
ValidatePassword(p) ==
    LET t == PasswordTraits(p)
    IN  (IF t.length < 8 THEN <<"Password must be at least 8 characters long">> ELSE <<>>)
        \o (IF ~t.upper THEN <<"Password must contain at least one uppercase letter">>
            ELSE <<>>)
        \o (IF ~t.lower THEN <<"Password must contain at least one lowercase letter">>
            ELSE <<>>)
        \o (IF ~t.digit THEN <<"Password must contain at least one number">> ELSE <<>>)
        \o (IF ~t.special THEN <<"Password must contain at least one special character">>
            ELSE <<>>)

\* Variant: the role validator letting admin through
RegisterErrorsAnyRole(q) ==
    (IF ~IsEmail(q.email) THEN <<"Please enter a valid email">> ELSE <<>>)
    \o (IF ValidatePassword(q.password) # <<>>
        THEN <<ValidatePassword(q.password)[1]>> ELSE <<>>)
    \o (IF ~q.confirm THEN <<"Passwords do not match">> ELSE <<>>)
    \o (IF ~q.fieldsOk THEN <<"First name must be at least 4 characters">> ELSE <<>>)
    \o (IF q.role \notin {"student", "lecturer", "admin"}
        THEN <<"Please select a valid role">> ELSE <<>>)

\* The validators of the route, in order: errors.array()
RegisterErrors(q) ==
    (IF ~IsEmail(q.email) THEN <<"Please enter a valid email">> ELSE <<>>)
    \o (IF ValidatePassword(q.password) # <<>>
        THEN <<ValidatePassword(q.password)[1]>> ELSE <<>>)
    \o (IF ~q.confirm THEN <<"Passwords do not match">> ELSE <<>>)
    \o (IF ~q.fieldsOk THEN <<"First name must be at least 4 characters">> ELSE <<>>)
    \o (IF q.role \notin {"student", "lecturer"}
        THEN <<"Please select a valid role">> ELSE <<>>)

RegisterNames == {"s1", "x1", "x2"}
RegisterEmails ==
    {EmailOf(n) : n \in RegisterNames}
        \cup {[name |-> "x1", caps |-> TRUE, wellformed |-> TRUE],
              [name |-> "x1", caps |-> FALSE, wellformed |-> FALSE]}
RegisterRoles == {"student", "lecturer", "admin", "root"}

\* The request arrives: requireGuest, the validators, validationResult.
RegisterStart(r, s, e, p, confirm, role, fieldsOk) ==
    /\ Free(r)
    /\ Cardinality(DOMAIN users \ UserIds) < MaxRegistrations
    /\ LET q == [IdleReq EXCEPT !.kind = "register", !.sess = s, !.email = e,
                                !.password = p, !.confirm = confirm, !.role = role,
                                !.fieldsOk = fieldsOk]
       IN  req' = [req EXCEPT ![r] =
                IF session[s] # NoUser
                THEN Answered(q, Redirect("/", ""))
                ELSE IF RegisterErrors(q) # <<>>
                THEN Answered(q, Redirect("/auth/register", RegisterErrors(q)[1]))
                ELSE [q EXCEPT !.pc = "registerLookup", !.email = NormalizeEmail(e)]]
    /\ UNCHANGED <<users, courses, enrollments, env, now, session, audit, auditStore>>

\* const userData = {...}
UserData(q) ==
    [email |-> q.email, password_hash |-> Hash(q.password), first_name |-> Text(4),
     role |-> q.role, approval_status |-> "pending"]

\* getUserByEmail(email) returns: the e-mail is taken, or on to the insert
RegisterLookup(r) ==
    /\ req[r].pc = "registerLookup"
    /\ req' = [req EXCEPT ![r] =
                  IF GetUserByEmail(req[r].email) # NoUser
                  THEN Answered(req[r], Redirect("/auth/register",
                                                 "An account with this email already exists"))
                  ELSE [req[r] EXCEPT !.pc = "registerCreate", !.updates = UserData(req[r])]]
    /\ UNCHANGED <<users, courses, enrollments, env, now, session, audit, auditStore>>

RegisterError ==
    Redirect("/auth/register", "An error occurred during registration. Please try again.")

\* .insert(userData).select().single(): a new row with the columns' defaults
CreateUser(id, userData) ==
    [u \in DOMAIN users \cup {id} |->
        IF u = id THEN Patch(NewUser(id, "pending", TRUE), userData) ELSE users[u]]

\* createUser(userData) returns; the insert fails when the e-mail, which is
\* UNIQUE, has been taken meanwhile, or the role is none of the column's.
RegisterCreate(r) ==
    /\ req[r].pc = "registerCreate"
    /\ LET q == req[r]
       IN  IF GetUserByEmail(q.email) # NoUser
              \/ q.updates.role \notin {"admin", "lecturer", "student"}
           THEN /\ req' = Done(r, RegisterError)
                /\ users' = users
           ELSE LET id == CHOOSE n \in NewIds : n \notin DOMAIN users
                IN  /\ users' = CreateUser(id, q.updates)
                    /\ req' = [req EXCEPT ![r].pc = "registerAudit", ![r].target = id]
    /\ UNCHANGED <<courses, enrollments, env, now, session, audit, auditStore>>

\* logAuditEvent(newUser.id, 'USER_REGISTERED', ..., null, userData, req) and
\* the redirect to the pending-approval page
RegisterAudit(r) ==
    /\ req[r].pc = "registerAudit"
    /\ Insert(AuditEvent(req[r].target, "USER_REGISTERED", req[r].target, NoValues,
                         req[r].updates))
    /\ req' = Done(r, Redirect("/auth/pending-approval",
                               "Registration successful! Your account is pending approval."))
    /\ UNCHANGED <<users, courses, enrollments, env, now, session, auditStore>>

RegisterStep(r, s) ==
    \/ \E e \in RegisterEmails, p \in Passwords, confirm \in BOOLEAN,
          role \in RegisterRoles, fieldsOk \in BOOLEAN :
          RegisterStart(r, s, e, p, confirm, role, fieldsOk)
    \/ RegisterLookup(r)
    \/ RegisterCreate(r)
    \/ RegisterAudit(r)

(***************************************************************************)
(* POST /admin/approve-user/:userId and POST /admin/reject-user/:userId,   *)
(* behind the admin router's requireAuth and requireRole(['admin']).       *)
(***************************************************************************)
MaxModerations == 2

MinReasonLength == 10

ModerateTargets == {"s1", "s2", "u9"}
RejectionReasons == {NoText, Padded(3, 0, 0), Padded(2, 9, 0), Text(10), Padded(1, 12, 1)}

\* Variant: the validator without trim()
RejectErrorsUntrimmed(q) ==
    IF Length(q.reason) >= MinReasonLength THEN <<>>
    ELSE <<"Rejection reason must be at least 10 characters">>

\* body("rejectionReason").trim().isLength({ min: 10 })
RejectErrors(q) ==
    IF Length(Trim(q.reason)) >= MinReasonLength THEN <<>>
    ELSE <<"Rejection reason must be at least 10 characters">>

ModerateError(q) ==
    IF q.kind = "approve"
    THEN IF q.xhr THEN Json(500, "Error approving user")
         ELSE Redirect("/admin/pending-approvals", "Error approving user")
    ELSE IF q.xhr THEN Json(500, "Error rejecting user")
         ELSE Redirect("/admin/pending-approvals", "Error rejecting user")

ModerateSuccess(q) ==
    IF q.kind = "approve"
    THEN IF q.xhr THEN Json(200, "User approved successfully")
         ELSE Redirect("/admin/pending-approvals", "User has been approved")
    ELSE IF q.xhr THEN Json(200, "User rejected successfully")
         ELSE Redirect("/admin/pending-approvals", "User has been rejected")

\* The request arrives and runs the admin router's chain; reject-user's
\* validator trims the reason in req.body, and the handler refuses on errors.
ModerateStart(r, s, kind, target, reason, xhr) ==
    /\ Free(r)
    /\ BagCardinality(audit) < MaxModerations
    /\ LET q == [IdleReq EXCEPT !.kind = kind, !.pc = "gate", !.sess = s, !.xhr = xhr,
                                !.route = "admin", !.target = target, !.reason = reason,
                                !.pos = 1]
           n == RunChain(q, session[s])
       IN  req' = [req EXCEPT ![r] =
                      IF n.pc # "handler" THEN n
                      ELSE IF kind = "reject" /\ RejectErrors(n) # <<>>
                      THEN Answered(n, Redirect("/admin/pending-approvals",
                                                RejectErrors(n)[1]))
                      ELSE [n EXCEPT !.pc = "moderateWrite", !.user = session[s],
                                     !.reason = IF kind = "reject" THEN Trim(reason)
                                                ELSE reason]]
    /\ UNCHANGED <<users, courses, enrollments, env, now, session, audit, auditStore>>

\* approveUser / rejectUser returns: .update(...).eq('id', userId).single()
\* is an error when there is no such row, and the catch block answers.
ModerateWrite(r) ==
    /\ req[r].pc = "moderateWrite"
    /\ LET q == req[r]
       IN  IF q.target \notin DOMAIN users
           THEN /\ req' = Done(r, ModerateError(q))
                /\ users' = users
           ELSE /\ users' = UpdateUser(q.target,
                                IF q.kind = "approve" THEN ApproveUserUpdates(q.user.id, now)
                                ELSE RejectUserUpdates(q.reason, q.user.id, now))
                /\ req' = [req EXCEPT ![r].pc = "moderateAudit"]
    /\ UNCHANGED <<courses, enrollments, env, now, session, audit, auditStore>>

\* logAuditEvent(approvedBy, "USER_APPROVED" / "USER_REJECTED", ...) with the
\* old status written as "pending", and the response
ModerateAudit(r) ==
    /\ req[r].pc = "moderateAudit"
    /\ LET q == req[r]
       IN  /\ Insert(IF q.kind = "approve"
                     THEN AuditEvent(q.user.id, "USER_APPROVED", q.target,
                                     [approval_status |-> "pending"],
                                     [approval_status |-> "approved"])
                     ELSE AuditEvent(q.user.id, "USER_REJECTED", q.target,
                                     [approval_status |-> "pending"],
                                     [approval_status |-> "rejected",
                                      rejection_reason |-> q.reason]))
           /\ req' = Done(r, ModerateSuccess(q))
    /\ UNCHANGED <<users, courses, enrollments, env, now, session, auditStore>>

ModerateStep(r, s) ==
    \/ \E target \in ModerateTargets, xhr \in BOOLEAN :
          ModerateStart(r, s, "approve", target, NoText, xhr)
    \/ \E target \in ModerateTargets, reason \in RejectionReasons, xhr \in BOOLEAN :
          ModerateStart(r, s, "reject", target, reason, xhr)
    \/ ModerateWrite(r)
    \/ ModerateAudit(r)

(***************************************************************************)
(* The account routes of the auth router, each behind requireAuth:         *)
(* POST /auth/change-password, POST /auth/profile, POST /auth/logout.      *)
(***************************************************************************)
MaxAccountChanges == 2

CurrentPasswords == Passwords \cup {OtherPassword}
NewPasswords == {GoodPassword, OtherPassword, "guess"}

\* A request to an account route arrives and runs requireAuth
AccountRequest(kind, s, xhr) ==
    RunChain([IdleReq EXCEPT !.kind = kind, !.pc = "gate", !.sess = s, !.xhr = xhr,
                             !.route = "account", !.pos = 1],
             session[s])

\* The validators of change-password, in order
ChangePasswordErrors(q) ==
    (IF q.password = "" THEN <<"Current password is required">> ELSE <<>>)
    \o (IF ValidatePassword(q.newPassword) # <<>>
        THEN <<ValidatePassword(q.newPassword)[1]>> ELSE <<>>)
    \o (IF ~q.confirm THEN <<"New passwords do not match">> ELSE <<>>)

\* The request arrives: requireAuth, the validators, req.session.user.id
ChangePasswordStart(r, s, current, new, confirm) ==
    /\ Free(r)
    /\ BagCardinality(audit) < MaxAccountChanges
    /\ LET n == [AccountRequest("changePassword", s, FALSE)
                    EXCEPT !.password = current, !.newPassword = new, !.confirm = confirm]
       IN  req' = [req EXCEPT ![r] =
                      IF n.pc # "handler" THEN n
                      ELSE IF ChangePasswordErrors(n) # <<>>
                      THEN Answered(n, Redirect("/auth/profile", ChangePasswordErrors(n)[1]))
                      ELSE [n EXCEPT !.pc = "passwordRead", !.user = session[s]]]
    /\ UNCHANGED <<users, courses, enrollments, env, now, session, audit, auditStore>>

\* Variant: the handler hashing the new password without comparing
ChangePasswordReadNoCompare(r) ==
    /\ req[r].pc = "passwordRead"
    /\ req' = [req EXCEPT ![r].pc = "passwordWrite",
                          ![r].updates = [password_hash |-> Hash(req[r].newPassword)]]
    /\ UNCHANGED <<users, courses, enrollments, env, now, session, audit, auditStore>>

\* getUserById(userId) returns; comparePassword against the stored hash;
\* hashPassword(newPassword)
ChangePasswordRead(r) ==
    /\ req[r].pc = "passwordRead"
    /\ LET q == req[r]
           user == GetUserById(q.user.id)
       IN  req' = [req EXCEPT ![r] =
                      IF ~ComparePassword(q.password, user.password_hash)
                      THEN Answered(q, Redirect("/auth/profile",
                                                "Current password is incorrect"))
                      ELSE [q EXCEPT !.pc = "passwordWrite",
                                     !.updates = [password_hash |-> Hash(q.newPassword)]]]
    /\ UNCHANGED <<users, courses, enrollments, env, now, session, audit, auditStore>>

\* updateUser(userId, { password_hash: newPasswordHash })
ChangePasswordWrite(r) ==
    /\ req[r].pc = "passwordWrite"
    /\ users' = UpdateUser(req[r].user.id, req[r].updates)
    /\ req' = [req EXCEPT ![r].pc = "passwordAudit"]
    /\ UNCHANGED <<courses, enrollments, env, now, session, audit, auditStore>>

\* logAuditEvent(userId, 'PASSWORD_CHANGED', 'users', userId, null, null, req)
ChangePasswordAudit(r) ==
    /\ req[r].pc = "passwordAudit"
    /\ Insert(AuditEvent(req[r].user.id, "PASSWORD_CHANGED", req[r].user.id,
                         NoValues, NoValues))
    /\ req' = Done(r, Redirect("/auth/profile", "Password changed successfully"))
    /\ UNCHANGED <<users, courses, enrollments, env, now, session, auditStore>>

ChangePasswordStep(r, s) ==
    \/ \E current \in CurrentPasswords, new \in NewPasswords, confirm \in BOOLEAN :
          ChangePasswordStart(r, s, current, new, confirm)
    \/ ChangePasswordRead(r)
    \/ ChangePasswordWrite(r)
    \/ ChangePasswordAudit(r)

FirstNames == {Text(1), Text(5), Padded(1, 6, 0)}

\* body('firstName').trim().isLength({ min: 2 })
ProfileErrors(q) ==
    IF Length(Trim(q.firstName)) >= 2 THEN <<>>
    ELSE <<"First name must be at least 2 characters">>

\* The request arrives: requireAuth, the validators, the updates
ProfileStart(r, s, firstName) ==
    /\ Free(r)
    /\ BagCardinality(audit) < MaxAccountChanges
    /\ LET n == [AccountRequest("profile", s, FALSE) EXCEPT !.firstName = firstName]
       IN  req' = [req EXCEPT ![r] =
                      IF n.pc # "handler" THEN n
                      ELSE IF ProfileErrors(n) # <<>>
                      THEN Answered(n, Redirect("/auth/profile", ProfileErrors(n)[1]))
                      ELSE [n EXCEPT !.pc = "profileWrite", !.user = session[s],
                                     !.firstName = Trim(firstName),
                                     !.updates = [first_name |-> Trim(firstName)]]]
    /\ UNCHANGED <<users, courses, enrollments, env, now, session, audit, auditStore>>

\* updateUser(userId, updates) returns the row as it is now, and
\* req.session.user = sanitizeUserForSession(updatedUser)
ProfileWrite(r) ==
    /\ req[r].pc = "profileWrite"
    /\ users' = UpdateUser(req[r].user.id, req[r].updates)
    /\ session' = [session EXCEPT ![req[r].sess] =
                      SanitizeUserForSession(users'[req[r].user.id])]
    /\ req' = [req EXCEPT ![r].pc = "profileAudit"]
    /\ UNCHANGED <<courses, enrollments, env, now, audit, auditStore>>

\* logAuditEvent(userId, 'PROFILE_UPDATED', 'users', userId, null, updates, req)
ProfileAudit(r) ==
    /\ req[r].pc = "profileAudit"
    /\ Insert(AuditEvent(req[r].user.id, "PROFILE_UPDATED", req[r].user.id,
                         NoValues, req[r].updates))
    /\ req' = Done(r, Redirect("/auth/profile", "Profile updated successfully"))
    /\ UNCHANGED <<users, courses, enrollments, env, now, session, auditStore>>

ProfileStep(r, s) ==
    \/ \E firstName \in FirstNames : ProfileStart(r, s, firstName)
    \/ ProfileWrite(r)
    \/ ProfileAudit(r)

\* The request arrives: requireAuth, req.session.user.id
LogoutStart(r, s) ==
    /\ Free(r)
    /\ BagCardinality(audit) < MaxAccountChanges
    /\ LET n == AccountRequest("logout", s, FALSE)
       IN  req' = [req EXCEPT ![r] =
                      IF n.pc # "handler" THEN n
                      ELSE [n EXCEPT !.pc = "logoutAudit", !.user = session[s]]]
    /\ UNCHANGED <<users, courses, enrollments, env, now, session, audit, auditStore>>

\* logAuditEvent(userId, 'USER_LOGOUT', 'users', userId, null, null, req),
\* then req.session.destroy and the redirect in its callback
LogoutAudit(r) ==
    /\ req[r].pc = "logoutAudit"
    /\ Insert(AuditEvent(req[r].user.id, "USER_LOGOUT", req[r].user.id, NoValues, NoValues))
    /\ session' = [session EXCEPT ![req[r].sess] = NoUser]
    /\ req' = Done(r, Redirect("/", ""))
    /\ UNCHANGED <<users, courses, enrollments, env, now, auditStore>>

LogoutStep(r, s) ==
    \/ LogoutStart(r, s)
    \/ LogoutAudit(r)

(***************************************************************************)
(* auditLogger and logActivity (middleware/audit): the wrapped res.end     *)
(* schedules logActivity with setImmediate once the response is out.       *)
(***************************************************************************)
MethodOf(q) == IF q.kind = "gate" THEN "GET" ELSE "POST"

\* The router a request's route is mounted under, and the route's path
\* inside it, a parameter written as the route names it
MountOf(q) ==
    CASE q.kind \in {"approve", "reject", "toggle"} -> "/admin"
      [] q.kind \in {"login", "register", "logout", "profile", "changePassword"} -> "/auth"
      [] OTHER -> "/"

RouterPath(q) ==
    CASE q.kind = "login" -> "/login"
      [] q.kind = "register" -> "/register"
      [] q.kind = "logout" -> "/logout"
      [] q.kind = "profile" -> "/profile"
      [] q.kind = "changePassword" -> "/change-password"
      [] q.kind = "approve" -> "/approve-user/:userId"
      [] q.kind = "reject" -> "/reject-user/:userId"
      [] q.kind = "toggle" -> "/toggle-user-status/:userId"
      [] OTHER -> "/"

FullPath(q) ==
    CASE q.kind = "login" -> "/auth/login"
      [] q.kind = "register" -> "/auth/register"
      [] q.kind = "logout" -> "/auth/logout"
      [] q.kind = "profile" -> "/auth/profile"
      [] q.kind = "changePassword" -> "/auth/change-password"
      [] q.kind = "approve" -> "/admin/approve-user/:userId"
      [] q.kind = "reject" -> "/admin/reject-user/:userId"
      [] q.kind = "toggle" -> "/admin/toggle-user-status/:userId"
      [] OTHER -> MountOf(q)

\* req.path when logActivity reads it: the router that answered has
\* taken its mount path off req.url, and puts it back only when it hands
\* the request on; either reading is kept.
PathsSeen(q) == {FullPath(q), RouterPath(q)}

\* `${req.method} ${req.path}`
ActionOf(q, path) ==
    CASE path = "/auth/login" -> "POST /auth/login"
      [] path = "/login" -> "POST /login"
      [] path = "/auth/register" -> "POST /auth/register"
      [] path = "/register" -> "POST /register"
      [] path = "/auth/logout" -> "POST /auth/logout"
      [] path = "/logout" -> "POST /logout"
      [] path = "/auth/profile" -> "POST /auth/profile"
      [] path = "/profile" -> "POST /profile"
      [] path = "/auth/change-password" -> "POST /auth/change-password"
      [] path = "/change-password" -> "POST /change-password"
      [] path = "/admin/approve-user/:userId" -> "POST /admin/approve-user/:userId"
      [] path = "/approve-user/:userId" -> "POST /approve-user/:userId"
      [] path = "/admin/reject-user/:userId" -> "POST /admin/reject-user/:userId"
      [] path = "/reject-user/:userId" -> "POST /reject-user/:userId"
      [] path = "/admin/toggle-user-status/:userId"
            -> "POST /admin/toggle-user-status/:userId"
      [] path = "/toggle-user-status/:userId" -> "POST /toggle-user-status/:userId"
      [] OTHER -> "GET"

\* req.body as the validators left it
Body(q) ==
    CASE q.kind = "login" -> [email |-> q.email, password |-> q.password]
      [] q.kind = "register" ->
            [email |-> q.email, password |-> q.password,
             confirmPassword |-> IF q.confirm THEN q.password ELSE "", role |-> q.role]
      [] q.kind = "changePassword" ->
            [currentPassword |-> q.password, newPassword |-> q.newPassword,
             confirmNewPassword |-> IF q.confirm THEN q.newPassword ELSE ""]
      [] q.kind = "reject" -> [rejectionReason |-> q.reason]
      [] q.kind = "profile" -> [firstName |-> q.firstName]
      [] OTHER -> NoValues

\* req.params.userId, the first id extractRecordId finds
ExtractRecordId(q) ==
    IF q.kind \in {"approve", "reject", "toggle"} THEN At(q.target) ELSE NULL

ShouldLogAction(q, path) ==
    \/ MethodOf(q) \in {"POST", "PUT", "DELETE", "PATCH"}
    \/ \E mount \in {"/auth", "/admin", "/lecturer", "/student"} :
          path = FullPath(q) /\ MountOf(q) = mount
    \/ q.resp.status >= 400

\* The two early returns of logActivity, then shouldLogAction
ActivityLogged(q, path) ==
    /\ ~(MethodOf(q) = "GET" /\ q.resp.status = 200)
    /\ ~(path = "/auth/login" /\ q.resp.status = 302)
    /\ ShouldLogAction(q, path)

ActivityEvent(q, path, user) ==
    [user_id |-> IF user = NoUser THEN NULL ELSE At(user.id),
     action |-> ActionOf(q, path), table_name |-> NULL,
     record_id |-> ExtractRecordId(q), old_values |-> Body(q), new_values |-> NoValues]

\* setImmediate(() => logActivity(req, res)) runs: the session is read as
\* it is by then
LogActivity(r) ==
    /\ req[r].pc = "done"
    /\ req[r].activity = "due"
    /\ \E path \in PathsSeen(req[r]) :
          IF ActivityLogged(req[r], path)
          THEN Insert(ActivityEvent(req[r], path, session[req[r].sess]))
          ELSE audit' = audit
    /\ req' = [req EXCEPT ![r].activity = "logged"]
    /\ UNCHANGED <<users, courses, enrollments, env, now, session, auditStore>>

\* The callback set with setImmediate runs before the connection's next
\* request is read
ActivityDone(r) == req[r].activity # "due"

(***************************************************************************)
(* The pages a browser is sent to: GET /, GET /auth/login,                 *)
(* GET /auth/pending-approval and the dashboards behind the mounts of the  *)
(* admin, lecturer and student routers.                                    *)
(***************************************************************************)
Dashboards == {"/admin/dashboard", "/lecturer/dashboard", "/student/dashboard"}
Urls == {"/", "/auth/login", "/auth/pending-approval"} \cup Dashboards

\* res.render(view)
Rendered(view) == [NoResp EXCEPT !.status = 200, !.msg = view]

\* app.get('/'): a browser with a principal is sent on by role
Home(user) ==
    IF user = NoUser THEN Rendered("index")
    ELSE CASE user.role = "admin" -> Redirect("/admin/dashboard", "")
           [] user.role = "lecturer" -> Redirect("/lecturer/dashboard", "")
           [] user.role = "student" -> Redirect("/student/dashboard", "")
           [] OTHER -> Redirect("/auth/login", "")

\* requireGuest calls next() for a browser without a principal
RequireGuest(user) == user = NoUser

\* What res.render('/pending-approval', ...) can come to: the view name
\* has a leading slash, so the view is found or the lookup fails
GenericPendingPages == {Rendered("pending-approval"), ErrorPage}

\* The router the dashboard is mounted under
RouteOf(url) ==
    CASE url = "/admin/dashboard" -> "admin"
      [] url = "/lecturer/dashboard" -> "lecturer"
      [] url = "/student/dashboard" -> "student"
      [] OTHER -> "none"

\* The responses GET url can have for a browser holding user
Get(q, url, user) ==
    LET n == [q EXCEPT !.kind = "page", !.url = url, !.pos = 1, !.evaluated = <<>>]
    IN  CASE url = "/" -> {Answered(n, Home(user))}
          [] url = "/auth/login" ->
                {Answered(n, IF RequireGuest(user) THEN Rendered("login")
                             ELSE Redirect("/", ""))}
          [] url = "/auth/pending-approval" ->
                IF ~RequireGuest(user) THEN {Answered(n, Redirect("/", ""))}
                ELSE IF user # NoUser /\ user.approval_status = "pending"
                THEN {Answered(n, Rendered("pending-approval"))}
                ELSE {Answered(n, page) : page \in GenericPendingPages}
          [] OTHER ->
                {AtHandler(RunChain([n EXCEPT !.pc = "gate", !.route = RouteOf(url)],
                                    user))}

\* The browser asks for a page
PageStart(r, s, url, xhr) ==
    /\ Free(r)
    /\ req' \in {[req EXCEPT ![r] = n] :
                    n \in Get([IdleReq EXCEPT !.sess = s, !.xhr = xhr], url, session[s])}
    /\ UNCHANGED <<users, courses, enrollments, env, now, session, audit, auditStore>>

\* The browser follows the redirect it was answered with
Follow(r) ==
    /\ req[r].kind = "page"
    /\ req[r].pc = "done"
    /\ req[r].resp.status = 302
    /\ req' \in {[req EXCEPT ![r] = n] :
                    n \in Get([IdleReq EXCEPT !.sess = req[r].sess, !.xhr = req[r].xhr],
                              req[r].resp.location, session[req[r].sess])}
    /\ UNCHANGED <<users, courses, enrollments, env, now, session, audit, auditStore>>

(***************************************************************************)
(* Initial states.                                                         *)
(***************************************************************************)
InitUsers ==
    [u \in UserIds |->
        NewUser(u, IF u = "s2" THEN "pending" ELSE "approved", TRUE)]

\* A row that a1 rejected before the run starts
RejectedBefore(row) == Patch(row, RejectUserUpdates(Text(21), "a1", 0))

\* Course c1 is l1's; c2 has lost its lecturer (ON DELETE SET NULL); there
\* is no course c9.  Student s1 is enrolled in c1 and has dropped c2.
InitData ==
    /\ courses = [c \in {"c1", "c2"} |->
                    [id |-> c, lecturer_id |-> IF c = "c1" THEN At("l1") ELSE NULL]]
    /\ enrollments = {[student_id |-> "s1", course_id |-> "c1", status |-> "active"],
                      [student_id |-> "s1", course_id |-> "c2", status |-> "dropped"]}
    /\ now = 1
    /\ req = [r \in ReqIds |-> IdleReq]
    /\ audit = EmptyBag

InitCommon ==
    /\ InitData
    /\ auditStore = "up"

(***************************************************************************)
(* Logins handled one at a time, against an account that an administrator  *)
(* may have deactivated, under every configuration of the lockout.         *)
(***************************************************************************)
InitLogin ==
    /\ InitCommon
    /\ session = [s \in SessIds |-> NoUser]
    /\ \E active \in BOOLEAN : users = [InitUsers EXCEPT !["s1"].is_active = active]
    /\ env \in [MAX_LOGIN_ATTEMPTS : EnvMaxLoginAttempts, LOCKOUT_TIME : EnvLockoutTime]

NextLogin ==
    \/ LoginStep("r1")
    \/ Tick
    \/ DropSession("k1")

SpecLogin == InitLogin /\ [][NextLogin]_vars

(***************************************************************************)
(* Two login requests in flight at once (two tabs, or a script): Node runs *)
(* each handler up to its next await, so the steps of the two interleave   *)
(* at every database call.                                                 *)
(***************************************************************************)
RaceEnv == [MAX_LOGIN_ATTEMPTS |-> At(2), LOCKOUT_TIME |-> At(1)]

InitRace ==
    /\ InitCommon
    /\ session = [s \in SessIds |-> NoUser]
    /\ users = InitUsers
    /\ env = RaceEnv

NextRace == \E r \in ReqIds : LoginStep(r)

SpecRace == InitRace /\ [][NextRace]_vars

(***************************************************************************)
(* One browser at the guest routes: it logs in and registers, one request  *)
(* at a time, and may drop its cookie.                                     *)
(***************************************************************************)
InitGuest ==
    /\ InitCommon
    /\ session = [s \in SessIds |-> NoUser]
    /\ \E active \in BOOLEAN : users = [InitUsers EXCEPT !["s1"].is_active = active]
    /\ env = RaceEnv

\* The browser's registrations: a well-formed body, for an e-mail that is
\* taken or free
GuestRegisterStep(r, s) ==
    \/ \E e \in {EmailOf("s1"), EmailOf("x1")}, role \in {"student", "lecturer"} :
          RegisterStart(r, s, e, GoodPassword, TRUE, role, TRUE)
    \/ RegisterLookup(r)
    \/ RegisterCreate(r)
    \/ RegisterAudit(r)

NextGuest ==
    \/ LoginStep("r1")
    \/ GuestRegisterStep("r1", "k1")
    \/ Tick
    \/ DropSession("k1")

SpecGuest == InitGuest /\ [][NextGuest]_vars

(***************************************************************************)
(* Requests to the gated routes, from a browser that is anonymous or holds *)
(* the principal some login gave it.  Login gives a principal to pending   *)
(* and rejected users too, and an administrator's row can be rejected      *)
(* through reject-user.                                                    *)
(***************************************************************************)
DefaultEnv == [MAX_LOGIN_ATTEMPTS |-> Unset, LOCKOUT_TIME |-> Unset]

InitGate ==
    /\ InitCommon
    /\ env = DefaultEnv
    /\ \E status \in {"pending", "rejected"} :
          users = [InitUsers EXCEPT !["s2"] = IF status = "rejected" THEN RejectedBefore(@)
                                              ELSE @,
                                    !["a2"] = RejectedBefore(@)]
    /\ \E principal \in {NoUser} \cup {SanitizeUserForSession(users[u]) : u \in UserIds} :
          session = [s \in SessIds |-> IF s = "k1" THEN principal ELSE NoUser]

NextGate == GateStep("r1")

SpecGate == InitGate /\ [][NextGate]_vars

(***************************************************************************)
(* Two administrators, each logged in from his own browser, toggling       *)
(* accounts.  a2 may have been deactivated or rejected before.             *)
(***************************************************************************)
InitToggle ==
    /\ InitCommon
    /\ env = DefaultEnv
    /\ \E active \in BOOLEAN, status \in {"approved", "rejected"} :
          users = [InitUsers EXCEPT !["a2"] =
                      [(IF status = "rejected" THEN RejectedBefore(@) ELSE @)
                          EXCEPT !.is_active = active]]
    /\ session = [s \in SessIds |->
                    SanitizeUserForSession(InitUsers[IF s = "k1" THEN "a1" ELSE "a2"])]

\* Node handles the requests one at a time.
NextToggleSerial == \E s \in SessIds : ToggleStep("r1", s)

SpecToggleSerial == InitToggle /\ [][NextToggleSerial]_vars

\* The requests of the two browsers interleave at their awaits.
NextToggle == ToggleStep("r1", "k1") \/ ToggleStep("r2", "k2")

SpecToggle == InitToggle /\ [][NextToggle]_vars

(***************************************************************************)
(* Self-registrations, one at a time, from an anonymous browser (k1) and   *)
(* from one that holds a1's principal (k2).                                *)
(***************************************************************************)
InitRegister ==
    /\ InitCommon
    /\ env = DefaultEnv
    /\ users = InitUsers
    /\ session = [s \in SessIds |->
                    IF s = "k1" THEN NoUser ELSE SanitizeUserForSession(InitUsers["a1"])]

NextRegister == \E s \in SessIds : RegisterStep("r1", s)

SpecRegister == InitRegister /\ [][NextRegister]_vars

(***************************************************************************)
(* Administrator a1 (k1) deciding on the pending account s2, one request   *)
(* at a time; lecturer l1 (k2) trying the same routes.                     *)
(***************************************************************************)
InitModerate ==
    /\ InitCommon
    /\ env = DefaultEnv
    /\ users = InitUsers
    /\ session = [s \in SessIds |->
                    SanitizeUserForSession(InitUsers[IF s = "k1" THEN "a1" ELSE "l1"])]

NextModerate == \E s \in SessIds : ModerateStep("r1", s)

SpecModerate == InitModerate /\ [][NextModerate]_vars

(***************************************************************************)
(* One request of each kind followed from its arrival to the row that      *)
(* logActivity writes for it, with the audit store answering, failing or   *)
(* not answering at all.                                                   *)
(***************************************************************************)
StoreStates == {"up", "down", "hung"}

\* s1 as five wrong passwords in a row leave it
LockedOut(row) ==
    [row EXCEPT !.login_attempts = DefaultMaxAttempts,
                !.locked_until = At(1 + DefaultLockoutTime)]

InitAudit ==
    /\ InitData
    /\ auditStore \in StoreStates
    /\ env = DefaultEnv
    /\ \E active \in BOOLEAN, locked \in BOOLEAN :
          users = [InitUsers EXCEPT !["s1"] =
                      [(IF locked THEN LockedOut(@) ELSE @) EXCEPT !.is_active = active]]
    /\ session = [s \in SessIds |->
                    IF s = "k1" THEN NoUser ELSE SanitizeUserForSession(InitUsers["a1"])]

AuditedStep(r) ==
    \/ LoginStep(r)
    \/ RegisterStep(r, "k1")
    \/ ModerateStep(r, "k2")
    \/ ToggleStep(r, "k2")
    \/ ChangePasswordStep(r, "k2")
    \/ LogoutStep(r, "k2")

NextAudit ==
    \/ req["r1"].pc # "done" /\ AuditedStep("r1")
    \/ LogActivity("r1")

\* Node runs every continuation whose await has returned.
SpecAudit == InitAudit /\ [][NextAudit]_vars /\ WF_vars(NextAudit)

(***************************************************************************)
(* Sessions: a browser (k1) that logs in, edits its profile and logs out,  *)
(* and one (k2) that holds the principal a login gave to an administrator, *)
(* an approved lecturer, the pending student or a rejected lecturer.       *)
(***************************************************************************)
SessionHolders == {"a1", "l1", "s2", "l2"}

InitSession ==
    /\ InitCommon
    /\ env = DefaultEnv
    /\ users = [InitUsers EXCEPT !["l2"] = RejectedBefore(@)]
    /\ \E u \in SessionHolders :
          session = [s \in SessIds |->
                        IF s = "k1" THEN NoUser ELSE SanitizeUserForSession(users[u])]

NextSession ==
    \/ LoginStep("r1")
    \/ \E s \in SessIds : ProfileStep("r1", s)
    \/ \E s \in SessIds : LogoutStep("r1", s)

SpecSession == InitSession /\ [][NextSession]_vars

(***************************************************************************)
(* Administrator a1 (k1) toggling accounts while lecturer l1 or student s1 *)
(* (k2), logged in while the account was active, goes on using the gated   *)
(* routes.                                                                 *)
(***************************************************************************)
InitDeactivate ==
    /\ InitCommon
    /\ env = DefaultEnv
    /\ users = InitUsers
    /\ \E u \in {"l1", "s1"} :
          session = [s \in SessIds |->
                        SanitizeUserForSession(InitUsers[IF s = "k1" THEN "a1" ELSE u])]

NextDeactivate ==
    \/ ToggleStep("r1", "k1")
    \/ GateStep("r1")

SpecDeactivate == InitDeactivate /\ [][NextDeactivate]_vars

(***************************************************************************)
(* A browser that is anonymous or holds the principal some login gave it,  *)
(* asking for one page and following every redirect it is answered with.   *)
(***************************************************************************)
NextBrowse ==
    \/ /\ req["r1"].pc = "idle"
       /\ \E s \in SessIds, url \in Urls, xhr \in BOOLEAN : PageStart("r1", s, url, xhr)
    \/ Follow("r1")

\* A browser follows a redirect as soon as it gets one.
SpecBrowse == InitGate /\ [][NextBrowse]_vars /\ WF_vars(Follow("r1"))

(***************************************************************************)
(* Administrator a1 (k1) and a browser that is anonymous or lecturer l1's  *)
(* (k2) posting /auth/change-password, one request at a time.              *)
(***************************************************************************)
InitPassword ==
    /\ InitCommon
    /\ env = DefaultEnv
    /\ users = InitUsers
    /\ \E other \in {NoUser, SanitizeUserForSession(InitUsers["l1"])} :
          session = [s \in SessIds |->
                        IF s = "k1" THEN SanitizeUserForSession(InitUsers["a1"]) ELSE other]

NextPassword == \E s \in SessIds : ChangePasswordStep("r1", s)

SpecPassword == InitPassword /\ [][NextPassword]_vars

(***************************************************************************)
(* The life of the accounts: a browser (k1) logging in as s1, with the     *)
(* lockout set to two attempts, and administrator a1 (k2) editing his      *)
(* profile, changing his password, approving, rejecting and toggling.      *)
(***************************************************************************)
InitLifecycle ==
    /\ InitCommon
    /\ env = [MAX_LOGIN_ATTEMPTS |-> <<2>>, LOCKOUT_TIME |-> <<1>>]
    /\ users = InitUsers
    /\ session = [s \in SessIds |->
                    IF s = "k1" THEN NoUser ELSE SanitizeUserForSession(InitUsers["a1"])]

NextLifecycle ==
    \/ LoginStep("r1")
    \/ ProfileStep("r1", "k2")
    \/ ChangePasswordStep("r1", "k2")
    \/ ModerateStep("r1", "k2")
    \/ ToggleStep("r1", "k2")

SpecLifecycle == InitLifecycle /\ [][NextLifecycle]_vars

(***************************************************************************)
(* Vocabulary of the claims about login.                                   *)
(***************************************************************************)
\* The account a login request names
LoginAccount(q) == GetUserByEmail(NormalizeEmail(q.email))

PositiveConfig == MaxAttemptsOf(env) > 0 /\ LockoutTimeOf(env) > 0

InvalidPasswordEvent(u) == AuthEvent(users[u].email, FALSE, "Invalid password")
SuccessEvent(u) == AuthEvent(users[u].email, TRUE, NULL)

\* This step records one more event e
Logged(e) == CopiesIn(e, audit') = CopiesIn(e, audit) + 1

InvalidCredentials == Redirect("/auth/login", "Invalid email or password")

\* Request r is past the lock checks and not answered yet
Verifying(r) ==
    req[r].kind = "login" /\ req[r].pc \in {"compare", "failed", "failedWrite", "success"}

(***************************************************************************)
(* C1.  Under a positive configuration and starting from an unlocked       *)
(* account with login_attempts = 0: an account whose counter is below      *)
(* maxAttempts has no locked_until; every wrong-password login raises      *)
(* login_attempts by exactly one; while the new count is below maxAttempts *)
(* locked_until stays unset, and when it reaches maxAttempts the stored    *)
(* row holds the new count and locked_until = now + lockoutMinutes, which  *)
(* is after now.                                                           *)
(***************************************************************************)
C1_Counter ==
    PositiveConfig =>
        \A u \in UserIds :
            users[u].login_attempts < MaxAttemptsOf(env) => users[u].locked_until = NULL

C1_Step ==
    \A u \in UserIds :
        (PositiveConfig /\ Logged(InvalidPasswordEvent(u))) =>
            LET n == users'[u].login_attempts
            IN  /\ n = users[u].login_attempts + 1
                /\ n < MaxAttemptsOf(env) => users'[u].locked_until = NULL
                /\ n = MaxAttemptsOf(env) =>
                      /\ users'[u].locked_until = At(now + LockoutTimeOf(env))
                      /\ now < TimeOf(users'[u].locked_until)

C1_LockoutAfterMaxAttempts == []C1_Counter /\ [][C1_Step]_vars

C1_Witness ==
    \E u \in UserIds :
        /\ PositiveConfig
        /\ MaxAttemptsOf(env) > 1
        /\ users[u].login_attempts = MaxAttemptsOf(env)
        /\ users[u].locked_until = At(now + LockoutTimeOf(env))
        /\ CopiesIn(InvalidPasswordEvent(u), audit) = MaxAttemptsOf(env)

(***************************************************************************)
(* C2.  A login request with a well-formed body whose lock check runs      *)
(* while the account it names is locked (now < locked_until) is answered   *)
(* "Account is locked" with the remaining minutes, whatever its password:  *)
(* the step changes no user row and no session, comparePassword is not     *)
(* called, and no request is ever past the lock checks while its account   *)
(* is locked.                                                              *)
(***************************************************************************)
C2_NeverVerifiedWhileLocked ==
    \A r \in ReqIds : Verifying(r) => ~IsLocked(users[req[r].user.id], now)

C2_Step ==
    \A r \in ReqIds :
        LET q == req[r]
            acct == LoginAccount(q)
        IN  (/\ q.kind = "login" /\ q.pc \in {"lockout", "lookup"}
             /\ req'[r] # q
             /\ ~ValidationFailed(r)
             /\ acct # NoUser /\ IsLocked(acct, now))
            => /\ users' = users
               /\ session' = session
               /\ ~req'[r].compared
               /\ req'[r].pc \in {"lookup", "done"}
               /\ q.pc = "lookup" => req'[r].pc = "done"
               /\ req'[r].pc = "done" => req'[r].resp = LockedResp(acct, now)

C2_LockedLoginRejected == []C2_NeverVerifiedWhileLocked /\ [][C2_Step]_vars

C2_Witness ==
    \E r \in ReqIds :
        /\ req[r].kind = "login" /\ req[r].pc = "done"
        /\ req[r].password = GoodPassword
        /\ LoginAccount(req[r]) # NoUser
        /\ IsLocked(LoginAccount(req[r]), now)
        /\ req[r].resp = LockedResp(LoginAccount(req[r]), now)
        /\ ~req[r].compared
        /\ session[req[r].sess] = NoUser
        /\ PositiveConfig /\ MaxAttemptsOf(env) > 1

(***************************************************************************)
(* C3.  Every step that completes a successful login (it records           *)
(* AUTH_LOGIN_SUCCESS for the user, or creates the user's session          *)
(* principal) leaves the user's row with login_attempts = 0,               *)
(* locked_until = null and last_login = now, whatever the row held before. *)
(***************************************************************************)
C3_Step ==
    \A u \in UserIds :
        (\/ Logged(SuccessEvent(u))
         \/ \E s \in SessIds : session'[s] # session[s] /\ session'[s].id = u)
        => /\ users'[u].login_attempts = 0
           /\ users'[u].locked_until = NULL
           /\ users'[u].last_login = At(now)

C3_SuccessResetsLockout == [][C3_Step]_vars

C3_Witness ==
    \E u \in UserIds, s \in SessIds :
        /\ session[s].id = u
        /\ MaxAttemptsOf(env) = 2
        /\ CopiesIn(InvalidPasswordEvent(u), audit) = 2
        /\ CopiesIn(SuccessEvent(u), audit) = 1
        /\ users[u].login_attempts = 0
        /\ users[u].locked_until = NULL
        /\ users[u].last_login = At(now)

(***************************************************************************)
(* C4.  For a deactivated account (is_active = false) that is not locked:  *)
(* a login with a well-formed body is answered "deactivated" exactly when  *)
(* its password is the right one, and then no row changes; with a wrong    *)
(* password it is answered "Invalid email or password" and                 *)
(* login_attempts grows by one.  No step of such a login creates a session *)
(* principal, resets the counter or sets last_login, and a deactivated     *)
(* account never owns a session principal.                                 *)
(***************************************************************************)
C4_NoPrincipal ==
    \A u \in UserIds :
        ~users[u].is_active =>
            /\ \A s \in SessIds : session[s].id # u
            /\ users[u].last_login = NULL

C4_Step ==
    \A r \in ReqIds :
        LET q == req[r]
            acct == LoginAccount(q)
            right == ComparePassword(q.password, acct.password_hash)
        IN  (/\ q.kind = "login" /\ q.pc \notin {"idle", "done"}
             /\ req'[r] # q
             /\ acct # NoUser /\ ~acct.is_active)
            => /\ session' = session
               /\ users'[acct.id].last_login = acct.last_login
               /\ users'[acct.id].login_attempts >= acct.login_attempts
               /\ (req'[r].pc = "done" /\ req'[r].resp = AccountDeactivated) => right
               /\ (req'[r].pc = "done" /\ ~IsLocked(acct, now) /\ ~ValidationFailed(r)) =>
                     IF right
                     THEN req'[r].resp = AccountDeactivated /\ users' = users
                     ELSE /\ req'[r].resp = InvalidCredentials
                          /\ users'[acct.id].login_attempts = acct.login_attempts + 1

C4_DeactivatedLogin == []C4_NoPrincipal /\ [][C4_Step]_vars

C4_Witness ==
    \E u \in UserIds :
        /\ ~users[u].is_active
        /\ users[u].locked_until = NULL
        /\ users[u].login_attempts = 1
        /\ CopiesIn(InvalidPasswordEvent(u), audit) = 1
        /\ CopiesIn(AuthEvent(users[u].email, FALSE, "Account deactivated"), audit) = 1
        /\ \E r \in ReqIds :
              req[r].pc = "done" /\ req[r].resp = AccountDeactivated /\ req[r].compared

(***************************************************************************)
(* Vocabulary of the claims about toggle-user-status.                      *)
(***************************************************************************)
ActiveAdmins == {u \in UserIds : users[u].role = "admin" /\ users[u].is_active}

\* Toggle request r has passed the gate and has written nothing yet
Deciding(r) == req[r].kind = "toggle" /\ req[r].pc \in {"toggleRead", "toggleCount"}

(***************************************************************************)
(* C5.  With requests handled one at a time, a toggle whose target is the  *)
(* only active admin changes no user row and records no audit event, and   *)
(* what it is answered is the LastAdminProtected refusal; no write that    *)
(* deactivates an admin is ever pending unless another admin is active.    *)
(***************************************************************************)
C5_NoPendingDeactivation ==
    \A r \in ReqIds :
        (/\ req[r].kind = "toggle" /\ req[r].pc = "toggleWrite"
         /\ req[r].user.role = "admin" /\ req[r].user.is_active)
        => ActiveAdmins \ {req[r].target} # {}

C5_Step ==
    \A r \in ReqIds :
        (Deciding(r) /\ ActiveAdmins = {req[r].target}) =>
            /\ users' = users
            /\ audit' = audit
            /\ \/ req'[r].pc = "toggleCount"
               \/ req'[r].pc = "done" /\ req'[r].resp = LastAdminProtected

C5_LastAdminProtected == []C5_NoPendingDeactivation /\ [][C5_Step]_vars

C5_Witness ==
    \E r \in ReqIds :
        /\ req[r].kind = "toggle" /\ req[r].pc = "done"
        /\ req[r].resp = LastAdminProtected
        /\ ActiveAdmins = {req[r].target}
        /\ BagCardinality(audit) > 0

(***************************************************************************)
(* C6.  In every reachable state, whatever the interleaving of concurrent  *)
(* toggle requests, at least one user with role admin has is_active true.  *)
(***************************************************************************)
C6_ActiveAdminExists == ActiveAdmins # {}

(***************************************************************************)
(* Vocabulary of the claims about the gate.                                *)
(***************************************************************************)
\* In this step a gated request in slot r arrives
Arrives(r) == Free(r) /\ req'[r] # req[r] /\ req'[r].kind = "gate"

\* In this step the gated request in slot r is answered
GateAnswers(r) == req'[r] # req[r] /\ req'[r].kind = "gate" /\ req'[r].pc = "done"

IsForbidden(q) ==
    IF q.xhr THEN q.resp = Json(403, "Access denied")
    ELSE q.resp.status = 302 /\ q.resp.location = "/" /\ q.resp.msg # ""

PassesApproval(user) == user.role = "admin" \/ user.approval_status = "approved"

(***************************************************************************)
(* C7.  A request to any gated route that carries no session principal is  *)
(* answered Unauthenticated (401 for an API caller, the login redirect     *)
(* otherwise) as it arrives, and authentication is the only predicate      *)
(* evaluated for it: no approval, role, ownership or enrollment predicate. *)
(***************************************************************************)
C7_Step ==
    \A r \in ReqIds :
        (Arrives(r) /\ session[req'[r].sess] = NoUser) =>
            /\ req'[r].pc = "done"
            /\ req'[r].resp = Unauthenticated(req'[r])
            /\ req'[r].evaluated = <<"authentication">>

C7_UnauthenticatedFirst == [][C7_Step]_vars

C7_Witness ==
    \E r \in ReqIds :
        /\ req[r].kind = "gate" /\ req[r].pc = "done"
        /\ req[r].route = "lecturerCourse"
        /\ session[req[r].sess] = NoUser
        /\ req[r].resp = Redirect("/auth/login", "Please log in to access this page")
        /\ req[r].evaluated = <<"authentication">>

(***************************************************************************)
(* C8.  A request whose principal is not an admin and whose                *)
(* approval_status is not approved is answered PendingApproval as it       *)
(* arrives, after authentication and approval only, so its handler is not  *)
(* reached.  An admin principal is never answered PendingApproval,         *)
(* whatever its approval_status, and reaches the handlers of the admin     *)
(* routes.  Role membership is evaluated only right after authentication   *)
(* and approval, for a principal that passes both.                         *)
(***************************************************************************)
C8_RoleLast ==
    \A r \in ReqIds :
        \A i \in DOMAIN req[r].evaluated :
            req[r].evaluated[i] = "role" =>
                /\ i > 2
                /\ req[r].evaluated[i - 2] = "authentication"
                /\ req[r].evaluated[i - 1] = "approval"

C8_Step ==
    \A r \in ReqIds :
        LET user == session[req'[r].sess]
        IN  (Arrives(r) /\ user # NoUser) =>
               /\ (user.role # "admin" /\ user.approval_status \in {"pending", "rejected"}) =>
                     /\ req'[r].pc = "done"
                     /\ req'[r].resp = PendingApproval(req'[r])
                     /\ req'[r].evaluated = <<"authentication", "approval">>
               /\ user.role = "admin" =>
                     /\ req'[r].resp # PendingApproval(req'[r])
                     /\ req'[r].route = "admin" => req'[r].resp = Handled
               /\ (\E i \in DOMAIN req'[r].evaluated : req'[r].evaluated[i] = "role") =>
                     PassesApproval(user)

C8_ApprovalBeforeRole == []C8_RoleLast /\ [][C8_Step]_vars

C8_Witness ==
    \E r \in ReqIds :
        /\ req[r].kind = "gate" /\ req[r].pc = "done"
        /\ req[r].route = "student"
        /\ session[req[r].sess] # NoUser
        /\ session[req[r].sess].role = "student"
        /\ session[req[r].sess].approval_status = "pending"
        /\ req[r].resp = PendingApproval(req[r]) /\ ~req[r].xhr
        /\ req[r].evaluated = <<"authentication", "approval">>

(***************************************************************************)
(* C9.  On the lecturer-only route of an existing course, behind role      *)
(* membership and course ownership: an approved student with an active     *)
(* enrollment in the course is answered Forbidden, the approved lecturer   *)
(* who is the course's lecturer_id reaches the handler, and an approved    *)
(* lecturer who is not is answered Forbidden.  Behind the ownership        *)
(* predicate of a route open to admins, an admin reaches the handler for   *)
(* every course id.                                                        *)
(***************************************************************************)
C9_Step ==
    \A r \in ReqIds :
        LET q == req'[r]
            user == session[q.sess]
        IN  (GateAnswers(r) /\ user # NoUser /\ PassesApproval(user)) =>
               /\ (q.route = "lecturerCourse" /\ q.courseId \in DOMAIN courses) =>
                     /\ (/\ user.role = "student"
                         /\ \E e \in enrollments :
                               /\ e.student_id = user.id /\ e.course_id = q.courseId
                               /\ e.status = "active")
                            => IsForbidden(q)
                     /\ (user.role = "lecturer"
                            /\ courses[q.courseId].lecturer_id = At(user.id))
                            => q.resp = Handled
                     /\ (user.role = "lecturer"
                            /\ courses[q.courseId].lecturer_id # At(user.id))
                            => IsForbidden(q)
               /\ (q.route = "staffCourse" /\ user.role = "admin") => q.resp = Handled

C9_CourseOwnership == [][C9_Step]_vars

C9_Witness ==
    \E r \in ReqIds :
        /\ req[r].kind = "gate" /\ req[r].pc = "done"
        /\ req[r].route = "lecturerCourse"
        /\ req[r].courseId \in DOMAIN courses
        /\ session[req[r].sess] # NoUser
        /\ session[req[r].sess].role = "lecturer"
        /\ courses[req[r].courseId].lecturer_id = At(session[req[r].sess].id)
        /\ req[r].resp = Handled
        /\ req[r].evaluated =
              <<"authentication", "approval", "authentication", "approval", "role",
                "courseOwnership">>

(***************************************************************************)
(* C10.  The ownership and enrollment predicates fail closed: a non-admin  *)
(* caller who names a course that does not exist, or a course in which he  *)
(* holds no enrollment, is answered Forbidden, as a caller who is not the  *)
(* owner is; never the handler, never the error page.                      *)
(***************************************************************************)
C10_FailClosed ==
    \A r \in ReqIds :
        LET q == req[r]
            user == session[q.sess]
        IN  (/\ q.kind = "gate" /\ q.pc = "done"
             /\ user # NoUser /\ user.role # "admin" /\ PassesApproval(user)
             /\ \/ /\ q.route = "lecturerCourse"
                   /\ q.courseId \notin DOMAIN courses
                \/ /\ q.route = "enrolledCourse"
                   /\ user.role = "student"
                   /\ ~\E e \in enrollments :
                          e.student_id = user.id /\ e.course_id = q.courseId)
            => IsForbidden(q)

(***************************************************************************)
(* Vocabulary of the claims about registration.                            *)
(***************************************************************************)
\* The rows created since the run started
Registered == DOMAIN users \ UserIds

\* In this step a registration request arrives in slot r
RegisterArrives(r) == Free(r) /\ req'[r] # req[r] /\ req'[r].kind = "register"

(***************************************************************************)
(* C11.  Every row that registration creates has role student or lecturer  *)
(* and approval_status pending; a registration request with role = admin   *)
(* is answered as it arrives, whatever its other fields, with no row       *)
(* written, and no registration past its validators carries another role   *)
(* than student or lecturer.                                               *)
(***************************************************************************)
C11_Created ==
    \A u \in Registered :
        users[u].role \in {"student", "lecturer"} /\ users[u].approval_status = "pending"

C11_InFlight ==
    \A r \in ReqIds :
        (req[r].kind = "register" /\ ~Free(r)) => req[r].role \in {"student", "lecturer"}

C11_Step ==
    \A r \in ReqIds :
        (RegisterArrives(r) /\ req'[r].role = "admin") =>
            /\ req'[r].pc = "done"
            /\ req'[r].resp.status = 302
            /\ req'[r].resp.location \in {"/", "/auth/register"}
            /\ users' = users
            /\ audit' = audit

C11_NoSelfRegisteredAdmin == [](C11_Created /\ C11_InFlight) /\ [][C11_Step]_vars

C11_Witness ==
    /\ \E u \in Registered : users[u].role = "lecturer"
    /\ \E r \in ReqIds :
          /\ req[r].kind = "register" /\ req[r].pc = "done"
          /\ req[r].role = "admin"
          /\ GetUserByEmail(NormalizeEmail(req[r].email)) = NoUser
          /\ req[r].resp = Redirect("/auth/register", "Please select a valid role")

(***************************************************************************)
(* Vocabulary of the claims about approve-user and reject-user.            *)
(***************************************************************************)
\* In this step an approve or reject request arrives in slot r
ModerateArrives(r) ==
    Free(r) /\ req'[r] # req[r] /\ req'[r].kind \in {"approve", "reject"}

\* The request was answered by the gate in front of its route
GateRefusal(q) ==
    q.resp \in {Unauthenticated(q), PendingApproval(q)} \/ IsForbidden(q)

RejectedEvents ==
    {e \in BagToSet(audit) : e.action = "USER_REJECTED"}

(***************************************************************************)
(* C12.  A reject request whose reason, once trimmed, is empty or shorter  *)
(* than the minimum length is answered as it arrives: no user row and no   *)
(* audit row changes, and behind the gate the answer is the validator's    *)
(* message.  No reject request past the validator carries such a reason,   *)
(* and every row whose approval_status is rejected has a rejection_reason  *)
(* that is not empty.                                                      *)
(***************************************************************************)
C12_ReasonKept ==
    /\ \A r \in ReqIds :
          (req[r].kind = "reject" /\ ~Free(r)) => Length(req[r].reason) >= MinReasonLength
    /\ \A u \in DOMAIN users :
          users[u].approval_status = "rejected" =>
              /\ users[u].rejection_reason # NULL
              /\ Length(TimeOf(users[u].rejection_reason)) > 0
    /\ \A e \in RejectedEvents : Length(e.new_values.rejection_reason) >= MinReasonLength

C12_Step ==
    \A r \in ReqIds :
        (/\ ModerateArrives(r)
         /\ req'[r].kind = "reject"
         /\ Length(Trim(req'[r].reason)) < MinReasonLength) =>
            /\ req'[r].pc = "done"
            /\ users' = users
            /\ audit' = audit
            /\ \/ req'[r].resp = Redirect("/admin/pending-approvals",
                                           "Rejection reason must be at least 10 characters")
               \/ GateRefusal(req'[r])

C12_RejectNeedsReason == []C12_ReasonKept /\ [][C12_Step]_vars

C12_Witness ==
    /\ users["s2"].approval_status = "rejected"
    /\ \E e \in RejectedEvents : e.record_id = At("s2")
    /\ \E r \in ReqIds :
          /\ req[r].kind = "reject" /\ req[r].pc = "done"
          /\ req[r].target = "s2"
          /\ Length(req[r].reason) >= MinReasonLength
          /\ Length(Trim(req[r].reason)) < MinReasonLength
          /\ req[r].resp = Redirect("/admin/pending-approvals",
                                    "Rejection reason must be at least 10 characters")

(***************************************************************************)
(* Vocabulary of the claims about the audit trail.                         *)
(***************************************************************************)
\* The request in slot r has been answered and its logActivity has run
Finished(r) == req[r].pc = "done" /\ req[r].activity = "logged"

ActionsIn(bag) == {e.action : e \in BagToSet(bag)}

(***************************************************************************)
(* C13.  With the audit store answering, a request to login, approve,      *)
(* reject, toggle or change-password, whether it succeeded or failed, has  *)
(* added exactly one row to the audit trail by the time the program is     *)
(* through with it, and the row's action is set.                           *)
(***************************************************************************)
C13_Kinds == {"login", "approve", "reject", "toggle", "changePassword"}

C13_ExactlyOneEvent ==
    \A r \in ReqIds :
        (Finished(r) /\ req[r].kind \in C13_Kinds /\ auditStore = "up") =>
            /\ BagCardinality(audit) = 1
            /\ "" \notin ActionsIn(audit)

\* The request in slot r is about to call its recorder, the mutation of
\* its operation written
Recording(r) ==
    req[r].pc \in {"toggleAudit", "moderateAudit", "registerAudit", "passwordAudit",
                   "logoutAudit"}

\* What the catch blocks of the handlers answer
CaughtErrors ==
    {"Error updating user status", "Error approving user", "Error rejecting user",
     "An error occurred during registration. Please try again.",
     "An error occurred during login. Please try again.",
     "An error occurred while changing your password. Please try again."}

\* What a handler answers once its recorder has returned
AfterRecorder(q) ==
    CASE q.pc = "toggleAudit" -> ToggleSuccess(q, ~q.user.is_active)
      [] q.pc = "moderateAudit" -> ModerateSuccess(q)
      [] q.pc = "registerAudit" ->
            Redirect("/auth/pending-approval",
                     "Registration successful! Your account is pending approval.")
      [] q.pc = "passwordAudit" -> Redirect("/auth/profile", "Password changed successfully")
      [] q.pc = "logoutAudit" -> Redirect("/", "")
      [] q.pc = "success" -> LoginRedirect(q.user)
      [] q.pc = "failedWrite" -> Redirect("/auth/login", "Invalid email or password")
      [] OTHER -> NoResp

(***************************************************************************)
(* C14.  While the audit store fails every insert: no step adds an audit   *)
(* row; the step in which a recorder of toggle, approve, reject, register, *)
(* change-password or logout runs leaves the user rows as the operation    *)
(* wrote them and answers the request as it is answered when the row is    *)
(* stored, never with what a catch block answers; a login that got its     *)
(* password right or wrong is answered, and its session set, in the same   *)
(* way; and every request in flight is answered in the end.                *)
(***************************************************************************)
C14_Step ==
    \A r \in ReqIds :
        (auditStore = "down" /\ req'[r] # req[r]) =>
            /\ audit' = audit
            /\ Recording(r) =>
                  /\ users' = users
                  /\ req'[r].pc = "done"
                  /\ req'[r].resp = AfterRecorder(req[r])
                  /\ req'[r].resp.msg \notin CaughtErrors
                  /\ req'[r].resp.status < 500
                  /\ req[r].pc = "logoutAudit" => session'[req[r].sess] = NoUser
            /\ (req[r].kind = "login" /\ req[r].pc \in {"success", "failedWrite"}) =>
                  /\ req'[r].pc = "done"
                  /\ req'[r].resp = AfterRecorder(req[r])
                  /\ req[r].pc = "success" =>
                        /\ session'[req[r].sess].id = req[r].user.id
                        /\ users'[req[r].user.id].last_login = At(now)

C14_Answered == \A r \in ReqIds : (auditStore = "down" /\ ~Free(r)) ~> Free(r)

C14_RecorderFailureIsSilent == [][C14_Step]_vars /\ C14_Answered

C14_Witness ==
    /\ auditStore = "down"
    /\ audit = EmptyBag
    /\ Finished("r1")
    /\ req["r1"].kind = "approve"
    /\ req["r1"].resp = Redirect("/admin/pending-approvals", "User has been approved")
    /\ users["s2"].approval_status = "approved"

(***************************************************************************)
(* C15.  A request in flight is answered in the end whatever the audit     *)
(* store does, also when an insert into it never returns.                  *)
(***************************************************************************)
C15_AnsweredWhateverTheStore == \A r \in ReqIds : ~Free(r) ~> req[r].pc = "done"

(***************************************************************************)
(* C16.  No row of the audit trail carries password material, plaintext    *)
(* or hash, in its old or its new snapshot.                                *)
(***************************************************************************)
PasswordFields ==
    {"password_hash", "password", "confirmPassword", "currentPassword", "newPassword",
     "confirmNewPassword"}

C16_NoPasswordInAudit ==
    \A e \in BagToSet(audit) :
        PasswordFields \cap (DOMAIN e.old_values \cup DOMAIN e.new_values) = {}

(***************************************************************************)
(* Vocabulary of the claims about sessions.                                *)
(***************************************************************************)
SensitiveFields == {"password_hash", "login_attempts", "locked_until"}

Authenticated(s) == session[s] # NoUser

(***************************************************************************)
(* C17.  A session principal never has a password_hash, login_attempts or  *)
(* locked_until field; whenever a step sets or refreshes a principal, at   *)
(* login or after a profile edit, the principal has the fields of the      *)
(* user's stored row but these three.                                      *)
(***************************************************************************)
C17_Sanitized ==
    \A s \in SessIds : Authenticated(s) => SensitiveFields \cap DOMAIN session[s] = {}

C17_Step ==
    \A s \in SessIds :
        (session'[s] # session[s] /\ session'[s] # NoUser) =>
            /\ DOMAIN session'[s] = DOMAIN users'[session'[s].id] \ SensitiveFields
            /\ SensitiveFields \subseteq DOMAIN users'[session'[s].id]

C17_PrincipalIsSanitized == []C17_Sanitized /\ [][C17_Step]_vars

C17_Witness ==
    /\ Authenticated("k1")
    /\ session["k1"].id = "s1"
    /\ session["k1"].first_name = Text(5)
    /\ req["r1"].kind = "profile"
    /\ req["r1"].pc = "done"

(***************************************************************************)
(* C18.  No request to a gated route reaches its handler unless the user   *)
(* row of its session principal has is_active true as the request is       *)
(* answered, also when the session was established before the account was  *)
(* deactivated.                                                            *)
(***************************************************************************)
C18_Step ==
    \A r \in ReqIds :
        (/\ req'[r] # req[r]
         /\ req'[r].kind = "gate"
         /\ req'[r].pc = "done"
         /\ req'[r].resp = Handled) =>
            /\ Authenticated(req'[r].sess)
            /\ users[session[req'[r].sess].id].is_active

C18_DeactivatedCannotAct == [][C18_Step]_vars

(***************************************************************************)
(* C19.  A browser that holds a principal which is not an admin and not    *)
(* approved, and asks for a dashboard as a page, ends, following the       *)
(* redirects it is answered with, at the rendered pending-approval page.   *)
(***************************************************************************)
Unapproved(user) ==
    user # NoUser /\ user.role # "admin" /\ user.approval_status # "approved"

C19_PendingPageShown ==
    \A r \in ReqIds :
        (/\ req[r].kind = "page"
         /\ ~req[r].xhr
         /\ req[r].url \in Dashboards
         /\ Unapproved(session[req[r].sess]))
            ~> (req[r].kind = "page" /\ req[r].resp = Rendered("pending-approval"))

(***************************************************************************)
(* C20.  Every step that answers a logout request from a browser holding   *)
(* a principal, whatever the principal's role and approval status, leaves  *)
(* the browser's session without a principal and adds the USER_LOGOUT row  *)
(* to the audit trail.                                                     *)
(***************************************************************************)
C20_Step ==
    \A r \in ReqIds :
        (/\ req'[r] # req[r]
         /\ req'[r].kind = "logout"
         /\ req'[r].pc = "done"
         /\ Authenticated(req'[r].sess)) =>
            /\ session'[req'[r].sess] = NoUser
            /\ BagCardinality(audit') = BagCardinality(audit) + 1
            /\ "USER_LOGOUT" \in ActionsIn(audit')

C20_LogoutAlwaysWorks == [][C20_Step]_vars

(***************************************************************************)
(* C21.  When MAX_LOGIN_ATTEMPTS or LOCKOUT_TIME is set to zero or to a    *)
(* negative number the lockout is off: no user row has a locked_until.     *)
(***************************************************************************)
NonPositive(v) == v # Unset /\ v[1] <= 0

C21_NonPositiveNeverLocks ==
    (NonPositive(env.MAX_LOGIN_ATTEMPTS) \/ NonPositive(env.LOCKOUT_TIME)) =>
        \A u \in UserIds : users[u].locked_until = NULL

(***************************************************************************)
(* C22.  The step that answers a login naming no user and the step that    *)
(* answers a login with a wrong password for an existing, unlocked account *)
(* send the same response, field for field: the redirect to /auth/login    *)
(* with "Invalid email or password".  The first changes no user row and no *)
(* session.                                                                *)
(***************************************************************************)
UnknownEmailAnswered(r) ==
    /\ req[r].kind = "login"
    /\ Logged(AuthEvent(req[r].email, FALSE, "User not found"))

WrongPasswordAnswered(r) ==
    /\ req[r].kind = "login"
    /\ Logged(AuthEvent(req[r].email, FALSE, "Invalid password"))

C22_Step ==
    \A r \in ReqIds :
        /\ (UnknownEmailAnswered(r) \/ WrongPasswordAnswered(r)) =>
              /\ req'[r].pc = "done"
              /\ req'[r].resp = InvalidCredentials
        /\ UnknownEmailAnswered(r) =>
              /\ LoginAccount(req[r]) = NoUser
              /\ users' = users
              /\ session' = session
        /\ WrongPasswordAnswered(r) =>
              /\ LoginAccount(req[r]) # NoUser
              /\ ~ComparePassword(req[r].password, LoginAccount(req[r]).password_hash)

C22_SameResponse == [][C22_Step]_vars

C22_Witness ==
    /\ req["r1"].pc = "done"
    /\ req["r1"].resp = InvalidCredentials
    /\ \E e \in BagToSet(audit) : e.old_values.reason = "User not found"
    /\ \E e \in BagToSet(audit) : e.old_values.reason = "Invalid password"

(***************************************************************************)
(* C23.  A change-password request whose current password does not verify  *)
(* against the stored hash is answered "Current password is incorrect"     *)
(* and changes no user row and no audit row.  A password_hash changes only *)
(* in the write of a change-password request whose current password        *)
(* verifies against the hash being replaced, and becomes the hash of that  *)
(* request's new password; PASSWORD_CHANGED is recorded only after that    *)
(* write; no request is past the comparison with a current password that   *)
(* does not verify.                                                        *)
(***************************************************************************)
PasswordChanged(u) == AuditEvent(u, "PASSWORD_CHANGED", u, NoValues, NoValues)

CurrentPasswordIncorrect == Redirect("/auth/profile", "Current password is incorrect")

C23_Verified ==
    \A r \in ReqIds :
        req[r].pc = "passwordWrite" =>
            ComparePassword(req[r].password, users[req[r].user.id].password_hash)

C23_Step ==
    /\ \A r \in ReqIds :
          (/\ req[r].pc = "passwordRead"
           /\ ~ComparePassword(req[r].password, users[req[r].user.id].password_hash)
           /\ req'[r] # req[r]) =>
              /\ req'[r].pc = "done"
              /\ req'[r].resp = CurrentPasswordIncorrect
              /\ users' = users
              /\ audit' = audit
    /\ \A u \in UserIds :
          users'[u].password_hash # users[u].password_hash =>
              \E r \in ReqIds :
                  /\ req[r].kind = "changePassword"
                  /\ req[r].pc = "passwordWrite"
                  /\ req[r].user.id = u
                  /\ ComparePassword(req[r].password, users[u].password_hash)
                  /\ users'[u].password_hash = Hash(req[r].newPassword)
    /\ \A u \in UserIds :
          Logged(PasswordChanged(u)) =>
              \E r \in ReqIds :
                  /\ req[r].pc = "passwordAudit"
                  /\ req[r].user.id = u
                  /\ users[u].password_hash = Hash(req[r].newPassword)

C23_WrongCurrentChangesNothing == []C23_Verified /\ [][C23_Step]_vars

C23_Witness ==
    /\ req["r1"].kind = "changePassword"
    /\ req["r1"].resp = CurrentPasswordIncorrect
    /\ req["r1"].password = GoodPassword
    /\ users["a1"].password_hash = Hash(OtherPassword)
    /\ PasswordChanged("a1") \in BagToSet(audit)

(***************************************************************************)
(* C24.  A user row has a rejection_reason exactly when its                *)
(* approval_status is rejected.                                            *)
(***************************************************************************)
C24_ReasonOnlyWhenRejected ==
    \A u \in DOMAIN users :
        users[u].rejection_reason # NULL <=> users[u].approval_status = "rejected"

(***************************************************************************)
(* C25.  No step of login, lockout, profile edit, change-password,         *)
(* approve, reject or toggle removes a user row or changes its role.       *)
(***************************************************************************)
C25_Step ==
    \A u \in DOMAIN users :
        /\ u \in DOMAIN users'
        /\ users'[u].role = users[u].role

C25_RoleIsImmutable == [][C25_Step]_vars

C25_Witness ==
    /\ users["a1"].first_name # InitUsers["a1"].first_name
    /\ users["a1"].password_hash # InitUsers["a1"].password_hash
    /\ users["a1"].role = "admin"

(***************************************************************************)
(* C26.  handleFailedLogin is a read followed by a write, with an await    *)
(* between them: the write stores the count the request read plus one,    *)
(* whatever the row holds by then.  Of two wrong-password logins in flight *)
(* together both can read the same count, and the row then grows by one    *)
(* for the two of them: the counter never exceeds the number of            *)
(* Invalid-password events of the account, and can fall short of it, so    *)
(* that a further password is verified with maxAttempts failures already   *)
(* recorded and locked_until still unset.                                  *)
(***************************************************************************)
FailedWriteLands(r) ==
    /\ req[r].kind = "login" /\ req[r].pc = "failedWrite"
    /\ req'[r].pc = "done"

C26_Counted ==
    \A u \in DOMAIN users :
        users[u].login_attempts <= CopiesIn(InvalidPasswordEvent(u), audit)

C26_Step ==
    \A r \in ReqIds :
        FailedWriteLands(r) =>
            LET u == req[r].user.id
            IN  /\ users'[u].login_attempts = req[r].updates.login_attempts
                /\ Logged(InvalidPasswordEvent(u))
                /\ users'[u].locked_until # users[u].locked_until
                       => req[r].updates.login_attempts >= MaxAttemptsOf(env)

C26_ReadThenWrite == []C26_Counted /\ [][C26_Step]_vars

\* Two failures recorded against s1, the row counts one, the account is not
\* locked, and a third wrong password has been verified.
C26_Witness ==
    /\ CopiesIn(InvalidPasswordEvent("s1"), audit) = MaxAttemptsOf(env)
    /\ users["s1"].login_attempts = 1
    /\ users["s1"].locked_until = NULL
    /\ \E r \in ReqIds :
          /\ req[r].kind = "login" /\ req[r].pc = "failed"
          /\ req[r].user.id = "s1"

(***************************************************************************)
(* C27.  The USER_APPROVED event carries, restricted to approval_status,   *)
(* a before snapshot equal to the status the user had just before the      *)
(* call and an after snapshot of approved.  No operation writes pending,   *)
(* so the status a user had before any call is the one the row was         *)
(* created with, or approved, or rejected: the before snapshot of every    *)
(* USER_APPROVED event about a user is one of these.                       *)
(***************************************************************************)
StatusesHeld(u) == {InitUsers[u].approval_status, "approved", "rejected"}

ApprovedEvents ==
    {e \in BagToSet(audit) : e.action = "USER_APPROVED"}

C27_BeforeSnapshotIsActual ==
    \A e \in ApprovedEvents :
        /\ DOMAIN e.old_values = {"approval_status"}
        /\ e.new_values = [approval_status |-> "approved"]
        /\ e.record_id[1] \in DOMAIN InitUsers
               => e.old_values.approval_status \in StatusesHeld(e.record_id[1])

(***************************************************************************)
(* C28.  A session gets a principal only in the step that ends a login     *)
(* request which found the user, found the account unlocked, verified the  *)
(* password and found is_active true, in that order: a login answered as   *)
(* locked has compared no password, and one answered as deactivated has    *)
(* compared the right one.  Every other step leaves the session as it is   *)
(* or anonymous.  A login or register request that arrives on a session    *)
(* holding a principal is answered at once with the redirect to "/", and   *)
(* no session, user row or audit row changes.                              *)
(***************************************************************************)
GuestArrives(r) ==
    Free(r) /\ req'[r] # req[r] /\ req'[r].kind \in {"login", "register"}

\* The login in slot r has come through every check of the handler
CameThrough(r) ==
    /\ req[r].kind = "login" /\ req[r].pc = "success"
    /\ req[r].user # NoUser
    /\ ~IsLocked(req[r].user, now)
    /\ req[r].compared
    /\ ComparePassword(req[r].password, req[r].user.password_hash)
    /\ req[r].user.is_active

C28_Order ==
    \A r \in ReqIds :
        req[r].kind = "login" =>
            /\ req[r].pc \in {"compare", "failed", "failedWrite", "success"}
                   => req[r].user # NoUser /\ ~IsLocked(req[r].user, now)
            /\ req[r].pc \in {"lockout", "lookup", "compare"} => ~req[r].compared
            /\ req[r].pc = "success" => CameThrough(r)

C28_Step ==
    /\ \A s \in SessIds :
          session'[s] # session[s] =>
              \/ session'[s] = NoUser
              \/ /\ session[s] = NoUser
                 /\ \E r \in ReqIds :
                       /\ CameThrough(r) /\ req[r].sess = s
                       /\ req'[r].pc = "done"
                       /\ session'[s] = SanitizeUserForSession(req[r].user)
    /\ \A r \in ReqIds :
          (req[r].kind = "login" /\ req'[r].pc = "done" /\ req[r].pc # "done") =>
              /\ req'[r].resp.msg = "Account is locked"
                     => req[r].pc \in {"lockout", "lookup"}
              /\ req'[r].resp = AccountDeactivated
                     => /\ req[r].pc = "compare"
                        /\ ComparePassword(req[r].password, req[r].user.password_hash)
    /\ \A r \in ReqIds :
          (GuestArrives(r) /\ session[req'[r].sess] # NoUser) =>
              /\ req'[r].pc = "done"
              /\ req'[r].resp = Redirect("/", "")
              /\ UNCHANGED <<session, users, audit>>

C28_PrincipalOnlyByLogin == []C28_Order /\ [][C28_Step]_vars

\* s1 has logged in, and a register request on the same session was turned
\* away
C28_Witness ==
    /\ session["k1"] # NoUser /\ session["k1"].id = "s1"
    /\ req["r1"].kind = "register"
    /\ req["r1"].pc = "done"
    /\ req["r1"].resp = Redirect("/", "")
    /\ CopiesIn(InvalidPasswordEvent("s1"), audit) > 0

(***************************************************************************)
(* C29.  Under a positive configuration login_attempts goes down only in   *)
(* the step that ends a successful login, where it becomes 0; the passing  *)
(* of time changes no row.  A row with a locked_until, running or run      *)
(* out, has a counter at or above maxAttempts, so the first wrong password *)
(* after the lock has run out raises the counter by one and sets a new     *)
(* locked_until = now + lockoutMinutes.                                    *)
(***************************************************************************)
C29_CounterOutlivesLock ==
    PositiveConfig =>
        \A u \in DOMAIN users :
            users[u].locked_until # NULL
                => users[u].login_attempts >= MaxAttemptsOf(env)

C29_Step ==
    PositiveConfig =>
        /\ now' # now => users' = users
        /\ \A u \in DOMAIN users :
              users'[u].login_attempts < users[u].login_attempts =>
                  /\ users'[u].login_attempts = 0
                  /\ \E r \in ReqIds :
                        /\ req[r].kind = "login" /\ req[r].pc = "success"
                        /\ req[r].user.id = u
                        /\ req'[r].pc = "done"
        /\ \A r \in ReqIds :
              (FailedWriteLands(r) /\ users[req[r].user.id].locked_until # NULL) =>
                  LET u == req[r].user.id
                  IN  /\ ~IsLocked(users[u], now)
                      /\ users'[u].login_attempts = users[u].login_attempts + 1
                      /\ users'[u].locked_until = At(now + LockoutTimeOf(env))
                      /\ IsLocked(users'[u], now)

C29_ResetOnlyBySuccess == []C29_CounterOutlivesLock /\ [][C29_Step]_vars

\* s1 was locked at maxAttempts failures, the lock ran out, and one more
\* wrong password has locked the account again
C29_Witness ==
    /\ PositiveConfig
    /\ CopiesIn(InvalidPasswordEvent("s1"), audit) = MaxAttemptsOf(env) + 1
    /\ CopiesIn(SuccessEvent("s1"), audit) = 0
    /\ users["s1"].login_attempts = MaxAttemptsOf(env) + 1
    /\ IsLocked(users["s1"], now)
    /\ TimeOf(users["s1"].locked_until) = now + LockoutTimeOf(env)
    /\ now > 1

(***************************************************************************)
(* Reading results: GET /student/result/:resultId behind the student       *)
(* router's gate, and GET /api/stats/performance/:studentId behind         *)
(* requireAuth.  Neither route writes; the results table is what the       *)
(* lecturers have recorded: e1 is s1's result, e2 is s2's, there is no e9. *)
(***************************************************************************)
Results ==
    [e \in {"e1", "e2"} |-> [id |-> e, student_id |-> IF e = "e1" THEN "s1" ELSE "s2"]]

ResultIds == DOMAIN Results \cup {"e9"}
PerformanceIds == {"s1", "s2", "l1", "u9"}

\* .from('results').eq('student_id', studentId): a list, empty when there
\* is none
GetResultsByStudent(studentId) ==
    {Results[e] : e \in {x \in DOMAIN Results : Results[x].student_id = studentId}}

\* The request for a result page arrives and runs the student router's
\* chain; the handler reads req.session.user.id and calls getResultById.
ResultViewStart(r, s, resultId, xhr) ==
    /\ Free(r)
    /\ LET q == [IdleReq EXCEPT !.kind = "resultView", !.pc = "gate", !.sess = s,
                                !.xhr = xhr, !.route = "student", !.target = resultId,
                                !.pos = 1]
           n == RunChain(q, session[s])
       IN  req' = [req EXCEPT ![r] =
                      IF n.pc # "handler" THEN n
                      ELSE [n EXCEPT !.pc = "resultLookup", !.user = session[s]]]
    /\ UNCHANGED <<users, courses, enrollments, env, now, session, audit, auditStore>>

\* Variant: The handler without the student_id test
ResultLookupAnyOwner(r) ==
    /\ req[r].pc = "resultLookup"
    /\ LET q == req[r]
       IN  req' = Done(r,
                IF q.target \notin DOMAIN Results
                THEN Redirect("/student/results", "Error loading result details")
                ELSE Rendered("student/result-detail"))
    /\ UNCHANGED <<users, courses, enrollments, env, now, session, audit, auditStore>>

\* getResultById returns: .single() is an error when there is no such row
\* and the catch block answers; a result of another student is refused;
\* the student's own is rendered.
ResultLookup(r) ==
    /\ req[r].pc = "resultLookup"
    /\ LET q == req[r]
       IN  req' = Done(r,
                IF q.target \notin DOMAIN Results
                THEN Redirect("/student/results", "Error loading result details")
                ELSE IF Results[q.target].student_id # q.user.id
                THEN Redirect("/student/results", "Result not found or access denied")
                ELSE Rendered("student/result-detail"))
    /\ UNCHANGED <<users, courses, enrollments, env, now, session, audit, auditStore>>

\* The request for performance data arrives, passes requireAuth, and the
\* handler tests userRole === 'student' && currentUserId !== studentId
\* before it calls getResultsByStudent.
PerformanceStart(r, s, studentId, xhr) ==
    /\ Free(r)
    /\ LET q == [IdleReq EXCEPT !.kind = "performance", !.pc = "gate", !.sess = s,
                                !.xhr = xhr, !.route = "performance",
                                !.target = studentId, !.pos = 1]
           n == RunChain(q, session[s])
           user == session[s]
       IN  req' = [req EXCEPT ![r] =
                      IF n.pc # "handler" THEN n
                      ELSE IF user.role = "student" /\ user.id # studentId
                      THEN Answered(n, Json(403, "Access denied"))
                      ELSE [n EXCEPT !.pc = "performanceLookup", !.user = user]]
    /\ UNCHANGED <<users, courses, enrollments, env, now, session, audit, auditStore>>

\* getResultsByStudent returns; res.json({ success: true, data })
PerformanceLookup(r) ==
    /\ req[r].pc = "performanceLookup"
    /\ req' = Done(r, Json(200, ""))
    /\ UNCHANGED <<users, courses, enrollments, env, now, session, audit, auditStore>>

ResultViewStep(r, s) ==
    \/ \E resultId \in ResultIds, xhr \in BOOLEAN : ResultViewStart(r, s, resultId, xhr)
    \/ ResultLookup(r)

PerformanceStep(r, s) ==
    \/ \E studentId \in PerformanceIds, xhr \in BOOLEAN :
          PerformanceStart(r, s, studentId, xhr)
    \/ PerformanceLookup(r)

\* Two browsers, each anonymous or holding the principal of a student, a
\* lecturer or an administrator; s2 is pending or has been approved.
ResultReaders == {"s1", "s2", "l1", "a1"}

InitResults ==
    /\ InitCommon
    /\ env = DefaultEnv
    /\ \E approved \in BOOLEAN :
          users = [InitUsers EXCEPT !["s2"] =
                      IF approved THEN Patch(@, ApproveUserUpdates("a1", 0)) ELSE @]
    /\ session \in [SessIds -> {NoUser} \cup
                                  {SanitizeUserForSession(users[u]) : u \in ResultReaders}]

NextResults ==
    \E s \in SessIds : ResultViewStep("r1", s) \/ PerformanceStep("r2", s)

SpecResults == InitResults /\ [][NextResults]_vars

(***************************************************************************)
(* C30.  For a principal with role student, the result page and the        *)
(* performance data of an answered request carry only rows whose           *)
(* student_id is the principal's id; a request that names the result or    *)
(* the id of another student never reaches the performance query and is    *)
(* answered with a refusal.                                                *)
(***************************************************************************)
\* The rows the answer to q carries: render('student/result-detail',
\* { result }) and the performance data built from getResultsByStudent
Shown(q) ==
    IF q.pc # "done" \/ q.resp.status # 200 THEN {}
    ELSE IF q.kind = "resultView" THEN {Results[q.target]}
    ELSE IF q.kind = "performance" THEN GetResultsByStudent(q.target)
    ELSE {}

\* q names a result of somebody else than p, or somebody else's id
NamesAnother(q, p) ==
    \/ /\ q.kind = "resultView"
       /\ q.target \in DOMAIN Results
       /\ Results[q.target].student_id # p.id
    \/ /\ q.kind = "performance"
       /\ q.target # p.id

Refusals(q) ==
    {PendingApproval(q),
     Redirect("/student/results", "Result not found or access denied"),
     Json(403, "Access denied")}

C30_OwnResultsOnly ==
    \A r \in ReqIds :
        LET q == req[r]
            p == session[q.sess]
        IN  (/\ q.kind \in {"resultView", "performance"}
             /\ p # NoUser
             /\ p.role = "student") =>
                /\ \A row \in Shown(q) : row.student_id = p.id
                /\ NamesAnother(q, p) =>
                      /\ q.pc # "performanceLookup"
                      /\ q.pc = "done" => q.resp \in Refusals(q)

\* Student s1 has asked for s2's result page and for s2's performance data,
\* and both were refused
C30_Witness ==
    /\ req["r1"].kind = "resultView" /\ req["r1"].target = "e2"
    /\ session[req["r1"].sess].id = "s1"
    /\ req["r1"].resp = Redirect("/student/results", "Result not found or access denied")
    /\ req["r2"].kind = "performance" /\ req["r2"].target = "s2"
    /\ session[req["r2"].sess].id = "s1"
    /\ req["r2"].resp = Json(403, "Access denied")

=============================================================================
